---- MODULE Spec2Model ----
(***************************************************************************)
(* Model of the PLTS toolkit core: lattice.py (Lattice, TwistStructure),   *)
(* model.py / world.py (Model, World), formula_parser.py (Lexer,           *)
(* FormulaParser, AST nodes) and the validity check of app.py.             *)
(***************************************************************************)
EXTENDS Integers, Sequences, FiniteSets, TLC

(***************************************************************************)
(* Bounds and universes                                                    *)
(***************************************************************************)
\* Labels that may be used as lattice elements.
Labels == {"0", "1", "a", "b"}

\* Largest number of elements of the lattices whose construction is explored.
MaxElements == 3

\* Value standing for a raised exception / an absent (None) value.
ERR == "ERR"
ErrPair == <<ERR, ERR>>
None == "None"

IsErr(p) == p = ErrPair

\* All permutations of a finite set, as sequences: the orders in which a
\* Python set of these labels may be iterated.
Perms(S) ==
  {s \in [1..Cardinality(S) -> S] : \A i, j \in 1..Cardinality(S) : i # j => s[i] # s[j]}

\* list(subset) under iteration order ord.
ListOf(S, ord) == SelectSeq(ord, LAMBDA x : x \in S)

\* A local variable assignment "v = <value>" followed by the statements Op
\* that read v.
With(value, Op(_)) == Op(value)

(***************************************************************************)
(* Lattice (lattice.py)                                                    *)
(* A lattice value L is a record [elements, relations, implication_map,    *)
(* top, bottom]; ord is the iteration order of Python sets of labels.      *)
(***************************************************************************)
is_less_than_or_equal(L, a, b) == <<a, b>> \in L.relations

\* The loop "for x in bounds: if all(x <= y for y in bounds): return x";
\* ERR when the loop falls through to the raise.
RECURSIVE FirstLeast(_, _, _)
FirstLeast(L, seq, bounds) ==
  IF seq = <<>> THEN ERR
  ELSE IF \A y \in bounds : is_less_than_or_equal(L, Head(seq), y) THEN Head(seq)
  ELSE FirstLeast(L, Tail(seq), bounds)

RECURSIVE FirstGreatest(_, _, _)
FirstGreatest(L, seq, bounds) ==
  IF seq = <<>> THEN ERR
  ELSE IF \A y \in bounds : is_less_than_or_equal(L, y, Head(seq)) THEN Head(seq)
  ELSE FirstGreatest(L, Tail(seq), bounds)

join(L, ord, a, b) ==
  IF a \notin L.elements \/ b \notin L.elements THEN ERR
  ELSE LET upper_bounds == {x \in L.elements :
                              is_less_than_or_equal(L, a, x) /\ is_less_than_or_equal(L, b, x)}
       IN IF upper_bounds = {} THEN ERR
          ELSE FirstLeast(L, ListOf(upper_bounds, ord), upper_bounds)

meet(L, ord, a, b) ==
  IF a \notin L.elements \/ b \notin L.elements THEN ERR
  ELSE LET lower_bounds == {x \in L.elements :
                              is_less_than_or_equal(L, x, a) /\ is_less_than_or_equal(L, x, b)}
       IN IF lower_bounds = {} THEN ERR
          ELSE FirstGreatest(L, ListOf(lower_bounds, ord), lower_bounds)

implication(L, a, b) ==
  IF <<a, b>> \in DOMAIN L.implication_map THEN L.implication_map[<<a, b>>] ELSE None

RECURSIVE FoldMeet(_, _, _, _)
FoldMeet(L, ord, lower, seq) ==
  IF seq = <<>> \/ lower = ERR THEN lower
  ELSE FoldMeet(L, ord, meet(L, ord, lower, Head(seq)), Tail(seq))

RECURSIVE FoldJoin(_, _, _, _)
FoldJoin(L, ord, greatest, seq) ==
  IF seq = <<>> \/ greatest = ERR THEN greatest
  ELSE FoldJoin(L, ord, join(L, ord, greatest, Head(seq)), Tail(seq))

meet_set(L, ord, subset) ==
  LET subset_list == ListOf(subset, ord)
  IN IF subset_list = <<>> THEN L.top
     ELSE FoldMeet(L, ord, Head(subset_list), subset_list)

join_set(L, ord, subset) ==
  LET subset_list == ListOf(subset, ord)
  IN IF subset_list = <<>> THEN L.bottom
     ELSE FoldJoin(L, ord, Head(subset_list), subset_list)

_check_is_lattice(L, ord) ==
  \A x \in L.elements : \A y \in L.elements :
     meet(L, ord, x, y) # ERR /\ join(L, ord, x, y) # ERR

\* Lattice.__init__: the constructed object, or the record with valid = FALSE
\* when the constructor raises.  top/bottom are unset (ERR) while the
\* constructor computes bottom = meet_set(elements) and then top.
NewLattice(elems, rels, imp, ord) ==
  LET L0 == [elements |-> elems, relations |-> rels, implication_map |-> imp,
             top |-> ERR, bottom |-> ERR, valid |-> FALSE]
  IN IF ~_check_is_lattice(L0, ord) THEN L0
     ELSE With(meet_set(L0, ord, elems), LAMBDA b :
          With(join_set([L0 EXCEPT !.bottom = b], ord, elems), LAMBDA t :
            IF b = ERR \/ t = ERR THEN L0
            ELSE [L0 EXCEPT !.bottom = b, !.top = t, !.valid = TRUE]))

(***************************************************************************)
(* TwistStructure (lattice.py): operations on pairs <<t, f>> of labels.    *)
(* A raised exception is the value ErrPair; ERR is no element of any       *)
(* lattice, so meet/join of an ERR component raise as well.                *)
(***************************************************************************)
Pair(t, f) == IF t = ERR \/ f = ERR THEN ErrPair ELSE <<t, f>>

twist_elements(L) == L.elements \X L.elements

\* truth order built with the comparison of the second components not
\* reversed.
_build_truth_order_Unreversed(rl, elements) ==
  {pp \in elements \X elements :
     /\ is_less_than_or_equal(rl, pp[1][1], pp[2][1])
     /\ is_less_than_or_equal(rl, pp[1][2], pp[2][2])}

_build_truth_order(rl, elements) ==
  {pp \in elements \X elements :
     /\ is_less_than_or_equal(rl, pp[1][1], pp[2][1])
     /\ is_less_than_or_equal(rl, pp[2][2], pp[1][2])}

_build_quantity_info_order(rl, elements) ==
  {pp \in elements \X elements :
     /\ is_less_than_or_equal(rl, pp[1][1], pp[2][1])
     /\ is_less_than_or_equal(rl, pp[1][2], pp[2][2])}

\* TwistStructure.__init__: the fields it computes from residuated_lattice.
NewTwistStructure(rl) ==
  With(twist_elements(rl), LAMBDA elements :
    [elements |-> elements,
     truth_relation |-> _build_truth_order(rl, elements),
     qntt_info_relation |-> _build_quantity_info_order(rl, elements)])

\* implication that takes top for an implication the table does not define.
twist_implication_DefaultsMissing(L, ord, pair1, pair2) ==
  LET imp_t1_t2 == implication(L, pair1[1], pair2[1])
      imp_f2_f1 == implication(L, pair2[2], pair1[2])
  IN Pair(meet(L, ord, IF imp_t1_t2 = None THEN L.top ELSE imp_t1_t2,
                       IF imp_f2_f1 = None THEN L.top ELSE imp_f2_f1),
          meet(L, ord, pair1[1], pair2[2]))

twist_implication(L, ord, pair1, pair2) ==
  LET t1 == pair1[1]
      f1 == pair1[2]
      t2 == pair2[1]
      f2 == pair2[2]
      imp_t1_t2 == implication(L, t1, t2)
      imp_f2_f1 == implication(L, f2, f1)
  IN IF imp_t1_t2 = None \/ imp_f2_f1 = None THEN ErrPair
     ELSE Pair(meet(L, ord, imp_t1_t2, imp_f2_f1), meet(L, ord, t1, f2))

consensus(L, ord, pair1, pair2) ==
  Pair(meet(L, ord, pair1[1], pair2[1]), meet(L, ord, pair1[2], pair2[2]))

\* residue_meet looking up the implications with their arguments swapped.
residue_meet_SwappedImplication(L, ord, pair1, pair2) ==
  LET imp1 == implication(L, pair2[2], pair1[1])
      imp2 == implication(L, pair1[2], pair2[1])
  IN With(meet(L, ord, pair1[1], pair2[1]), LAMBDA meet_t :
       IF meet_t = ERR THEN ErrPair
       ELSE IF imp1 = None \/ imp2 = None THEN ErrPair
       ELSE Pair(meet_t, meet(L, ord, imp1, imp2)))

\* residue_meet that takes top for an implication the table does not define.
residue_meet_DefaultsMissing(L, ord, pair1, pair2) ==
  LET imp1 == implication(L, pair1[1], pair2[2])
      imp2 == implication(L, pair2[1], pair1[2])
  IN With(meet(L, ord, pair1[1], pair2[1]), LAMBDA meet_t :
       IF meet_t = ERR THEN ErrPair
       ELSE Pair(meet_t, meet(L, ord, IF imp1 = None THEN L.top ELSE imp1,
                                      IF imp2 = None THEN L.top ELSE imp2)))

residue_meet(L, ord, pair1, pair2) ==
  LET t1 == pair1[1]
      f1 == pair1[2]
      t2 == pair2[1]
      f2 == pair2[2]
      imp1 == implication(L, t1, f2)
      imp2 == implication(L, t2, f1)
  IN With(meet(L, ord, t1, t2), LAMBDA meet_t :
       IF meet_t = ERR THEN ErrPair
       ELSE IF imp1 = None \/ imp2 = None THEN ErrPair
       ELSE Pair(meet_t, meet(L, ord, imp1, imp2)))

\* negation that forgets the evidence-for component.
negation_DropsTruth(pair) == <<pair[2], pair[2]>>

negation(pair) == <<pair[2], pair[1]>>

\* weak_meet taking the meet of both components.
weak_meet_MeetBoth(L, ord, pair1, pair2) ==
  Pair(meet(L, ord, pair1[1], pair2[1]), meet(L, ord, pair1[2], pair2[2]))

weak_meet(L, ord, pair1, pair2) ==
  Pair(meet(L, ord, pair1[1], pair2[1]), join(L, ord, pair1[2], pair2[2]))

weak_join(L, ord, pair1, pair2) ==
  Pair(join(L, ord, pair1[1], pair2[1]), meet(L, ord, pair1[2], pair2[2]))

accept_all(L, ord, pair1, pair2) ==
  Pair(join(L, ord, pair1[1], pair2[1]), join(L, ord, pair1[2], pair2[2]))

\* pairs is a list (sequence) of pairs; the code turns both component lists
\* into sets before folding.
weak_meet_set(L, ord, pairs) ==
  IF pairs = <<>> THEN <<L.top, L.bottom>>
  ELSE LET t_list == {pairs[i][1] : i \in DOMAIN pairs}
           f_list == {pairs[i][2] : i \in DOMAIN pairs}
       IN Pair(meet_set(L, ord, t_list), join_set(L, ord, f_list))

weak_join_set(L, ord, pairs) ==
  IF pairs = <<>> THEN <<L.bottom, L.top>>
  ELSE LET t_list == {pairs[i][1] : i \in DOMAIN pairs}
           f_list == {pairs[i][2] : i \in DOMAIN pairs}
       IN Pair(join_set(L, ord, t_list), meet_set(L, ord, f_list))

(***************************************************************************)
(* World and Model (world.py, model.py)                                    *)
(* Worlds are identified by their object identity, written "w1", "w2".     *)
(* A Model value M is a record [worlds, assignments, actions,              *)
(* accessibility_relations]; assignments[w] is the dict World.assignments  *)
(* of world w (a function from proposition names to raw value strings),    *)
(* accessibility_relations is the nested dict action -> source -> target   *)
(* -> weight, each level a function whose DOMAIN is the dict's key set.    *)
(***************************************************************************)
Worlds == {"w1", "w2"}
WorldSeq == <<"w1", "w2">>

\* A raw assignment string: <<"bare", v>> is the string v (no leading
\* parenthesis); <<"tuple", t, f>> is the string "('t', 'f')", the repr of a
\* pair of labels.
Bare(v) == <<"bare", v>>
Tuple(t, f) == <<"tuple", t, f>>

EmptyDict == [x \in {} |-> None]

\* A weight of None in the relations argument.
NoWeight == <<None>>

\* dict.get(key, {}) on a nested dict level.
DictGet(d, key) == IF key \in DOMAIN d THEN d[key] ELSE EmptyDict

\* Model.__init__: actions is extended by the keys of the relations argument;
\* an entry is stored for every weight that is not None, and a key exists at
\* a level of the stored nested dict only when an entry below it was stored.
\* Model whose actions are only the ones of the actions argument.
Model_init_ActionsArgumentOnly(worlds, assignments, accessibility_relations, actions) ==
  LET Stored(action, src) ==
        {tgt \in DOMAIN accessibility_relations[action][src] :
           accessibility_relations[action][src][tgt] # NoWeight}
      Sources(action) ==
        {src \in DOMAIN accessibility_relations[action] : Stored(action, src) # {}}
      Actions == {action \in DOMAIN accessibility_relations : Sources(action) # {}}
  IN [worlds |-> worlds,
      assignments |-> assignments,
      actions |-> actions,
      accessibility_relations |->
        [action \in Actions |->
           [src \in Sources(action) |->
              [tgt \in Stored(action, src) |->
                 accessibility_relations[action][src][tgt]]]]]

Model_init(worlds, assignments, accessibility_relations, actions) ==
  LET Stored(action, src) ==
        {tgt \in DOMAIN accessibility_relations[action][src] :
           accessibility_relations[action][src][tgt] # NoWeight}
      Sources(action) ==
        {src \in DOMAIN accessibility_relations[action] : Stored(action, src) # {}}
      Actions == {action \in DOMAIN accessibility_relations : Sources(action) # {}}
  IN [worlds |-> worlds,
      assignments |-> assignments,
      actions |-> actions \cup DOMAIN accessibility_relations,
      accessibility_relations |->
        [action \in Actions |->
           [src \in Sources(action) |->
              [tgt \in Stored(action, src) |->
                 accessibility_relations[action][src][tgt]]]]]

get_relation_weight(M, L, action, source, target) ==
  IF action \in DOMAIN M.accessibility_relations
     /\ source \in DOMAIN M.accessibility_relations[action]
     /\ target \in DOMAIN M.accessibility_relations[action][source]
  THEN M.accessibility_relations[action][source][target]
  ELSE <<L.bottom, L.top>>

(***************************************************************************)
(* Strings of the formula language are sequences of one-character strings. *)
(***************************************************************************)
S_TOP == <<"T", "O", "P">>
S_BOT == <<"B", "O", "T">>
S_1 == <<"1">>
S_0 == <<"0">>

(***************************************************************************)
(* AST nodes (formula_parser.py).  A node is a tuple whose first component *)
(* is the class name: <<"Atom", name>>, <<"Not", child>>,                  *)
(* <<"And", left, right>>, ..., <<"Diamond", child, action>>,              *)
(* <<"Box", child, action>>.                                               *)
(***************************************************************************)
Atom(name) == <<"Atom", name>>
Not(child) == <<"Not", child>>
And(left, right) == <<"And", left, right>>
Or(left, right) == <<"Or", left, right>>
MaterialImplies(left, right) == <<"MaterialImplies", left, right>>
MaterialIff(left, right) == <<"MaterialIff", left, right>>
Implies(left, right) == <<"Implies", left, right>>
Iff(left, right) == <<"Iff", left, right>>
Diamond(child, action) == <<"Diamond", child, action>>
Box(child, action) == <<"Box", child, action>>

UnaryOps == {"Not"}
ModalOps == {"Diamond", "Box"}
BinaryOps == {"And", "Or", "MaterialImplies", "MaterialIff", "Implies", "Iff"}

RECURSIVE get_atoms(_)
get_atoms(node) ==
  IF node[1] = "Atom"
    THEN IF node[2] \in {S_TOP, S_BOT, S_1, S_0} THEN {} ELSE {node[2]}
  ELSE IF node[1] \in UnaryOps \cup ModalOps THEN get_atoms(node[2])
  ELSE get_atoms(node[2]) \cup get_atoms(node[3])

\* literal_eval / bare-label conversion of an assignment string.
AssignmentValue(val_str) ==
  IF val_str[1] = "tuple" THEN <<val_str[2], val_str[3]>>
  ELSE <<val_str[2], val_str[2]>>

\* Atom that substitutes (bottom, top) for a name without assignment.
Atom_evaluate_DefaultsToBottom(name, M, world, L) ==
  IF name = S_BOT \/ name = S_0 THEN <<L.bottom, L.top>>
  ELSE IF name = S_TOP \/ name = S_1 THEN <<L.top, L.bottom>>
  ELSE IF name \in DOMAIN M.assignments[world]
    THEN AssignmentValue(M.assignments[world][name])
  ELSE <<L.bottom, L.top>>

\* Atom that looks the name up in the assignments before it tests for the
\* constants.
Atom_evaluate_AssignmentFirst(name, M, world, L) ==
  IF name \in DOMAIN M.assignments[world]
    THEN AssignmentValue(M.assignments[world][name])
  ELSE IF name = S_BOT \/ name = S_0 THEN <<L.bottom, L.top>>
  ELSE IF name = S_TOP \/ name = S_1 THEN <<L.top, L.bottom>>
  ELSE ErrPair

Atom_evaluate(name, M, world, L) ==
  IF name = S_BOT \/ name = S_0 THEN <<L.bottom, L.top>>
  ELSE IF name = S_TOP \/ name = S_1 THEN <<L.top, L.bottom>>
  ELSE IF name \in DOMAIN M.assignments[world]
    THEN AssignmentValue(M.assignments[world][name])
  ELSE ErrPair

RECURSIVE evaluate(_, _, _, _, _)

\* Diamond aggregating the successor values with weak_meet_set.
Diamond_evaluate_MeetAggregate(child, action, M, world, L, ord) ==
  IF action \notin M.actions THEN ErrPair
  ELSE With(DictGet(DictGet(M.accessibility_relations, action), world),
         LAMBDA targets_map :
       With(SelectSeq(WorldSeq, LAMBDA t : t \in DOMAIN targets_map), LAMBDA targets :
       With([i \in 1..Len(targets) |->
               With(evaluate(child, M, targets[i], L, ord), LAMBDA val_succ :
                 IF IsErr(val_succ) THEN ErrPair
                 ELSE residue_meet(L, ord, targets_map[targets[i]], val_succ))],
            LAMBDA results :
         IF \E i \in 1..Len(targets) : IsErr(results[i]) THEN ErrPair
         ELSE weak_meet_set(L, ord, results))))

Diamond_evaluate(child, action, M, world, L, ord) ==
  IF action \notin M.actions THEN ErrPair
  ELSE With(DictGet(DictGet(M.accessibility_relations, action), world),
         LAMBDA targets_map :
       With(SelectSeq(WorldSeq, LAMBDA t : t \in DOMAIN targets_map), LAMBDA targets :
       With([i \in 1..Len(targets) |->
               With(evaluate(child, M, targets[i], L, ord), LAMBDA val_succ :
                 IF IsErr(val_succ) THEN ErrPair
                 ELSE residue_meet(L, ord, targets_map[targets[i]], val_succ))],
            LAMBDA results :
         IF \E i \in 1..Len(targets) : IsErr(results[i]) THEN ErrPair
         ELSE weak_join_set(L, ord, results))))

\* Box that hands the child itself, not its negation, to Diamond.
Box_evaluate_NoInnerNot(child, action, M, world, L, ord) ==
  negation(Diamond_evaluate(child, action, M, world, L, ord))

Box_evaluate(child, action, M, world, L, ord) ==
  LET not_phi == Not(child)
  IN negation(Diamond_evaluate(not_phi, action, M, world, L, ord))

evaluate(node, M, world, L, ord) ==
  IF node[1] = "Atom" THEN Atom_evaluate(node[2], M, world, L)
  ELSE IF node[1] = "Not" THEN negation(evaluate(node[2], M, world, L, ord))
  ELSE IF node[1] = "Diamond" THEN Diamond_evaluate(node[2], node[3], M, world, L, ord)
  ELSE IF node[1] = "Box" THEN Box_evaluate(node[2], node[3], M, world, L, ord)
  ELSE With(evaluate(node[2], M, world, L, ord), LAMBDA val_l :
       With(evaluate(node[3], M, world, L, ord), LAMBDA val_r :
         IF IsErr(val_l) \/ IsErr(val_r) THEN ErrPair
         ELSE IF node[1] = "And" THEN weak_meet(L, ord, val_l, val_r)
         ELSE IF node[1] = "Or" THEN weak_join(L, ord, val_l, val_r)
         ELSE IF node[1] = "MaterialImplies"
           THEN weak_join(L, ord, negation(val_l), val_r)
         ELSE IF node[1] = "MaterialIff"
           THEN weak_meet(L, ord, weak_join(L, ord, negation(val_l), val_r),
                                  weak_join(L, ord, negation(val_r), val_l))
         ELSE IF node[1] = "Implies" THEN twist_implication(L, ord, val_l, val_r)
         ELSE With(twist_implication(L, ord, val_l, val_r), LAMBDA i12 :
              With(twist_implication(L, ord, val_r, val_l), LAMBDA i21 :
                IF IsErr(i12) \/ IsErr(i21) THEN ErrPair
                ELSE weak_meet(L, ord, i12, i21)))))

(***************************************************************************)
(* What the calls leave behind in the Model.  accessibility_relations is a *)
(* defaultdict of defaultdicts of dicts: d[key] on a missing key stores a  *)
(* new empty dict under key, while d.get(key, {}) and "key in d" store     *)
(* nothing.  The operators below return the dict / the Model as it is      *)
(* after the call, whether the call returns or raises.                     *)
(***************************************************************************)
defaultdict_getitem_store(d, key) ==
  IF key \in DOMAIN d THEN d ELSE d @@ (key :> EmptyDict)

\* d.get(key, {}) carried out as d[key].
dict_get_store_Inserts(d, key) == defaultdict_getitem_store(d, key)

dict_get_store(d, key) == d

RECURSIVE evaluate_store(_, _, _, _, _)

\* The loop of Diamond.evaluate over the items of targets_map, which ends at
\* the first child evaluation or residue_meet that raises.
RECURSIVE Diamond_loop_store(_, _, _, _, _, _)
Diamond_loop_store(child, targets_map, targets, M, L, ord) ==
  IF targets = <<>> THEN M
  ELSE With(evaluate(child, M, Head(targets), L, ord), LAMBDA val_succ :
       With(evaluate_store(child, M, Head(targets), L, ord), LAMBDA M1 :
         IF IsErr(val_succ)
            \/ IsErr(residue_meet(L, ord, targets_map[Head(targets)], val_succ))
           THEN M1
         ELSE Diamond_loop_store(child, targets_map, Tail(targets), M1, L, ord)))

Diamond_evaluate_store(child, action, M, world, L, ord) ==
  IF action \notin M.actions THEN M
  ELSE With(dict_get_store(M.accessibility_relations, action), LAMBDA outer :
       With(IF action \in DOMAIN outer
              THEN [outer EXCEPT ![action] = dict_get_store(@, world)]
            ELSE outer, LAMBDA relations :
       With(DictGet(DictGet(relations, action), world), LAMBDA targets_map :
         Diamond_loop_store(child, targets_map,
                            SelectSeq(WorldSeq, LAMBDA t : t \in DOMAIN targets_map),
                            [M EXCEPT !.accessibility_relations = relations], L, ord))))

evaluate_store(node, M, world, L, ord) ==
  IF node[1] = "Atom" THEN M
  ELSE IF node[1] = "Not" THEN evaluate_store(node[2], M, world, L, ord)
  ELSE IF node[1] = "Diamond"
    THEN Diamond_evaluate_store(node[2], node[3], M, world, L, ord)
  ELSE IF node[1] = "Box"
    THEN Diamond_evaluate_store(Not(node[2]), node[3], M, world, L, ord)
  ELSE With(evaluate_store(node[2], M, world, L, ord), LAMBDA M1 :
         IF IsErr(evaluate(node[2], M, world, L, ord)) THEN M1
         ELSE evaluate_store(node[3], M1, world, L, ord))

\* get_relation_weight subscripts a level only after "in" found the key.
get_relation_weight_store(M, action, source, target) ==
  IF action \in DOMAIN M.accessibility_relations
    THEN With(defaultdict_getitem_store(M.accessibility_relations, action),
              LAMBDA outer :
           IF source \in DOMAIN outer[action]
             THEN [M EXCEPT !.accessibility_relations =
                     [outer EXCEPT ![action] = defaultdict_getitem_store(@, source)]]
           ELSE [M EXCEPT !.accessibility_relations = outer])
  ELSE M

(***************************************************************************)
(* Lexer (formula_parser.py).  text is a sequence of characters, pos the   *)
(* 0-based Lexer.pos.  A token is a record [type, value, pos]: pos is the  *)
(* lexer position after the token.  A raised ValueError is the token of    *)
(* type "ERROR": value is the exception's message, as the sequence of its  *)
(* literal and interpolated parts, and pos the lexer position at the raise.*)
(***************************************************************************)
LowerLetters == {"p", "q", "r", "s", "a", "b", "t", "o"}
UpperLetters == {"P", "Q", "R", "S", "A", "B", "T", "O"}
Digits == {"0", "1"}

isspace(c) == c = " "
isalnum(c) == c \in LowerLetters \cup UpperLetters \cup Digits

upper_char(c) ==
  CASE c = "p" -> "P" [] c = "q" -> "Q" [] c = "r" -> "R" [] c = "s" -> "S"
    [] c = "a" -> "A" [] c = "b" -> "B" [] c = "t" -> "T" [] c = "o" -> "O"
    [] OTHER -> c

upper(str) == [i \in 1..Len(str) |-> upper_char(str[i])]

\* Lexer.current_char
current_char(text, pos) == IF pos < Len(text) THEN text[pos + 1] ELSE None

RECURSIVE skip_whitespace(_, _)
skip_whitespace(text, pos) ==
  IF current_char(text, pos) # None /\ isspace(current_char(text, pos))
    THEN skip_whitespace(text, pos + 1)
  ELSE pos

\* Returns the identifier and the position after it.
RECURSIVE get_identifier_from(_, _, _)
get_identifier_from(text, pos, result) ==
  LET c == current_char(text, pos)
  IN IF c # None /\ (isalnum(c) \/ c = "_")
       THEN get_identifier_from(text, pos + 1, Append(result, c))
     ELSE [result |-> result, pos |-> pos]

get_identifier(text, pos) == get_identifier_from(text, pos, <<>>)

Token(type, value, pos) == [type |-> type, value |-> value, pos |-> pos]
Lit(msg) == <<"text", msg>>
Raise(parts, pos) == [type |-> "ERROR", value |-> parts, pos |-> pos]

char_map(c) ==
  CASE c = "~" -> "NOT" [] c = "&" -> "AND" [] c = "|" -> "OR"
    [] c = "(" -> "LPAREN" [] c = ")" -> "RPAREN" [] OTHER -> None

LexBox(text, pos) ==
  LET p1 == pos + 1
  IN IF current_char(text, p1) = "]"
       THEN Raise(<<Lit("Box operator '[]' requires an action identifier (e.g., [a]).")>>, p1)
     ELSE With(get_identifier(text, p1), LAMBDA id :
            IF id.result = <<>>
              THEN Raise(<<Lit("Invalid or missing action identifier inside Box operator.")>>,
                         id.pos)
            ELSE IF current_char(text, id.pos) = "]"
              THEN Token("BOX", id.result, id.pos + 1)
            ELSE Raise(<<Lit("Expected ']' after action")>>, id.pos))

LexAngle(text, pos) ==
  LET p1 == pos + 1
  IN IF current_char(text, p1) = "-"
       THEN IF current_char(text, p1 + 1) = ">"
              THEN Token("MAT_IFF", <<"<", "-", ">">>, p1 + 2)
            ELSE Raise(<<Lit("Expected '>' after '<-'")>>, p1 + 1)
     ELSE IF current_char(text, p1) = ">"
       THEN Raise(<<Lit("Diamond operator '<>' requires an action identifier (e.g., <a>).")>>, p1)
     ELSE With(get_identifier(text, p1), LAMBDA id :
            IF id.result = <<>>
              THEN Raise(<<Lit("Invalid or missing action identifier inside Diamond operator.")>>,
                         id.pos)
            ELSE IF current_char(text, id.pos) = ">"
              THEN Token("DIAMOND", id.result, id.pos + 1)
            ELSE Raise(<<Lit("Expected '>' after action")>>, id.pos))

LexAtom(text, pos) ==
  With(get_identifier(text, pos), LAMBDA id :
    IF id.result = S_1 \/ upper(id.result) = S_TOP THEN Token("ATOM", S_TOP, id.pos)
    ELSE IF id.result = S_0 \/ upper(id.result) = S_BOT THEN Token("ATOM", S_BOT, id.pos)
    ELSE Token("ATOM", id.result, id.pos))

RECURSIVE get_next_token(_, _)
get_next_token(text, pos) ==
  LET c == current_char(text, pos)
  IN IF c = None THEN Token("EOF", <<>>, pos)
     ELSE IF isspace(c) THEN get_next_token(text, skip_whitespace(text, pos))
     ELSE IF c = "[" THEN LexBox(text, pos)
     ELSE IF c = "<" THEN LexAngle(text, pos)
     ELSE IF c = "="
       THEN IF current_char(text, pos + 1) = ">"
              THEN Token("IMPLIES", <<"=", ">">>, pos + 2)
            ELSE Raise(<<Lit("Unexpected character '='. Did you mean '=>'?")>>, pos + 1)
     ELSE IF isalnum(c) THEN LexAtom(text, pos)
     ELSE IF char_map(c) # None THEN Token(char_map(c), <<c>>, pos + 1)
     ELSE IF c = "-"
       THEN IF current_char(text, pos + 1) = ">"
              THEN Token("MAT_IMPLIES", <<"-", ">">>, pos + 2)
            ELSE Raise(<<Lit("Expected '>' after '-'")>>, pos + 1)
     ELSE Raise(<<Lit("Unknown character: "), <<"char", c>>>>, pos)

(***************************************************************************)
(* FormulaParser (formula_parser.py).  tok is FormulaParser.current_token. *)
(* Every parsing method returns [node, tok]: the AST it built and the      *)
(* current token afterwards; when a ValueError was raised, tok is the      *)
(* ERROR token and node is NoAst.                                          *)
(***************************************************************************)
NoAst == <<"NoAst">>
IsError(tok) == tok.type = "ERROR"
Fail(tok) == [node |-> NoAst, tok |-> tok]

eat(text, tok, token_type) ==
  IF tok.type = token_type THEN get_next_token(text, tok.pos)
  ELSE Raise(<<Lit("Expected "), <<"token", token_type>>, Lit(", got "),
               <<"token", tok.type>>>>, tok.pos)

RECURSIVE iff(_, _)
RECURSIVE unary(_, _)

\* unary whose prefix operators take a whole formula as their operand.
unary_LoosePrefix(text, tok) ==
  With(eat(text, tok, tok.type), LAMBDA t1 :
    IF tok.type \in {"NOT", "BOX", "DIAMOND"}
      THEN IF IsError(t1) THEN Fail(t1)
           ELSE With(iff(text, t1), LAMBDA r :
                  IF IsError(r.tok) THEN r
                  ELSE IF tok.type = "NOT" THEN [node |-> Not(r.node), tok |-> r.tok]
                  ELSE IF tok.type = "BOX"
                    THEN [node |-> Box(r.node, tok.value), tok |-> r.tok]
                  ELSE [node |-> Diamond(r.node, tok.value), tok |-> r.tok])
    ELSE IF tok.type = "LPAREN"
      THEN IF IsError(t1) THEN Fail(t1)
           ELSE With(iff(text, t1), LAMBDA r :
                  IF IsError(r.tok) THEN r
                  ELSE With(eat(text, r.tok, "RPAREN"), LAMBDA t2 :
                         IF IsError(t2) THEN Fail(t2)
                         ELSE [node |-> r.node, tok |-> t2]))
    ELSE IF tok.type = "ATOM"
      THEN IF IsError(t1) THEN Fail(t1) ELSE [node |-> Atom(tok.value), tok |-> t1]
    ELSE Fail(Raise(<<Lit("Unexpected token: "), <<"token", tok.type>>>>, tok.pos)))

unary(text, tok) ==
  With(eat(text, tok, tok.type), LAMBDA t1 :
    IF tok.type \in {"NOT", "BOX", "DIAMOND"}
      THEN IF IsError(t1) THEN Fail(t1)
           ELSE With(unary(text, t1), LAMBDA r :
                  IF IsError(r.tok) THEN r
                  ELSE IF tok.type = "NOT" THEN [node |-> Not(r.node), tok |-> r.tok]
                  ELSE IF tok.type = "BOX"
                    THEN [node |-> Box(r.node, tok.value), tok |-> r.tok]
                  ELSE [node |-> Diamond(r.node, tok.value), tok |-> r.tok])
    ELSE IF tok.type = "LPAREN"
      THEN IF IsError(t1) THEN Fail(t1)
           ELSE With(iff(text, t1), LAMBDA r :
                  IF IsError(r.tok) THEN r
                  ELSE With(eat(text, r.tok, "RPAREN"), LAMBDA t2 :
                         IF IsError(t2) THEN Fail(t2)
                         ELSE [node |-> r.node, tok |-> t2]))
    ELSE IF tok.type = "ATOM"
      THEN IF IsError(t1) THEN Fail(t1) ELSE [node |-> Atom(tok.value), tok |-> t1]
    ELSE Fail(Raise(<<Lit("Unexpected token: "), <<"token", tok.type>>>>, tok.pos)))

\* The while loop of expr_prod, entered with the node built so far.
RECURSIVE expr_prod_loop(_, _, _)
expr_prod_loop(text, node, tok) ==
  IF tok.type = "AND"
    THEN With(eat(text, tok, "AND"), LAMBDA t1 :
           IF IsError(t1) THEN Fail(t1)
           ELSE With(unary(text, t1), LAMBDA r :
                  IF IsError(r.tok) THEN r
                  ELSE expr_prod_loop(text, And(node, r.node), r.tok)))
  ELSE [node |-> node, tok |-> tok]

expr_prod(text, tok) ==
  With(unary(text, tok), LAMBDA r :
    IF IsError(r.tok) THEN r ELSE expr_prod_loop(text, r.node, r.tok))

\* expr_sum whose right operands are read by unary: '&' no tighter than '|'.
RECURSIVE expr_sum_loop_FlatOperand(_, _, _)
expr_sum_loop_FlatOperand(text, node, tok) ==
  IF tok.type \in {"OR", "AND"}
    THEN With(eat(text, tok, tok.type), LAMBDA t1 :
           IF IsError(t1) THEN Fail(t1)
           ELSE With(unary(text, t1), LAMBDA r :
                  IF IsError(r.tok) THEN r
                  ELSE expr_sum_loop_FlatOperand(text,
                         IF tok.type = "OR" THEN Or(node, r.node)
                         ELSE And(node, r.node), r.tok)))
  ELSE [node |-> node, tok |-> tok]

RECURSIVE expr_sum_loop(_, _, _)
expr_sum_loop(text, node, tok) ==
  IF tok.type = "OR"
    THEN With(eat(text, tok, "OR"), LAMBDA t1 :
           IF IsError(t1) THEN Fail(t1)
           ELSE With(expr_prod(text, t1), LAMBDA r :
                  IF IsError(r.tok) THEN r
                  ELSE expr_sum_loop(text, Or(node, r.node), r.tok)))
  ELSE [node |-> node, tok |-> tok]

expr_sum(text, tok) ==
  With(expr_prod(text, tok), LAMBDA r :
    IF IsError(r.tok) THEN r ELSE expr_sum_loop(text, r.node, r.tok))

RECURSIVE implies_loop(_, _, _)
implies_loop(text, node, tok) ==
  IF tok.type \in {"IMPLIES", "MAT_IMPLIES"}
    THEN With(eat(text, tok, tok.type), LAMBDA t1 :
           IF IsError(t1) THEN Fail(t1)
           ELSE With(expr_sum(text, t1), LAMBDA r :
                  IF IsError(r.tok) THEN r
                  ELSE implies_loop(text,
                         IF tok.type = "IMPLIES" THEN Implies(node, r.node)
                         ELSE MaterialImplies(node, r.node), r.tok)))
  ELSE [node |-> node, tok |-> tok]

implies(text, tok) ==
  With(expr_sum(text, tok), LAMBDA r :
    IF IsError(r.tok) THEN r ELSE implies_loop(text, r.node, r.tok))

RECURSIVE iff_loop(_, _, _)
iff_loop(text, node, tok) ==
  IF tok.type \in {"IFF", "MAT_IFF"}
    THEN With(eat(text, tok, tok.type), LAMBDA t1 :
           IF IsError(t1) THEN Fail(t1)
           ELSE With(implies(text, t1), LAMBDA r :
                  IF IsError(r.tok) THEN r
                  ELSE iff_loop(text,
                         IF tok.type = "IFF" THEN Iff(node, r.node)
                         ELSE MaterialIff(node, r.node), r.tok)))
  ELSE [node |-> node, tok |-> tok]

iff(text, tok) ==
  With(implies(text, tok), LAMBDA r :
    IF IsError(r.tok) THEN r ELSE iff_loop(text, r.node, r.tok))

\* parse that returns without looking at the token after the formula.
parse_NoEofCheck(text) ==
  With(get_next_token(text, 0), LAMBDA t0 :
    IF IsError(t0) THEN Fail(t0) ELSE iff(text, t0))

\* FormulaParser(text).parse(): the constructor reads the first token.
parse(text) ==
  With(get_next_token(text, 0), LAMBDA t0 :
    IF IsError(t0) THEN Fail(t0)
    ELSE With(iff(text, t0), LAMBDA res :
           IF IsError(res.tok) THEN res
           ELSE IF res.tok.type # "EOF"
             THEN Fail(Raise(<<Lit("Unexpected end chars")>>, res.tok.pos))
           ELSE res))

(***************************************************************************)
(* State                                                                   *)
(***************************************************************************)
VARIABLES
  iter_order,    \* order in which Python iterates a set of labels (hash order)
  lattice_args,  \* arguments of Lattice(name, elements, relations, implication_map)
  lattice,       \* the Lattice / ResiduatedLattice object (valid = FALSE: none exists)
  model,         \* the Model object and its World objects
  text,          \* the formula string
  parsed,        \* result of FormulaParser(text).parse()
  outcome,       \* what the last call (evaluation, validity check, ...) reported
  call_args,     \* the pairs passed to a TwistStructure operation
  files,         \* the JSON files of lattices, residuated lattices, twist structures
  pc             \* position of the program

vars == <<iter_order, lattice_args, lattice, model, text, parsed, outcome, call_args,
          files, pc>>

NoLattice == [elements |-> {}, relations |-> {}, implication_map |-> EmptyDict,
              top |-> ERR, bottom |-> ERR, valid |-> FALSE]
NoModel == [worlds |-> {}, assignments |-> EmptyDict, actions |-> {},
            accessibility_relations |-> EmptyDict]
NoParse == Fail(Token("NONE", <<>>, 0))
NoOutcome == [kind |-> "none"]
NoFiles == [lattices |-> EmptyDict, residuated_lattices |-> EmptyDict,
            twist_structures |-> EmptyDict]

(***************************************************************************)
(* Lattice construction: Lattice.__init__                                  *)
(***************************************************************************)
Lattice_init ==
  /\ pc = "new"
  /\ lattice' = NewLattice(lattice_args.elements, lattice_args.relations,
                           lattice_args.implication_map, iter_order)
  /\ pc' = IF lattice'.valid THEN "constructed" ELSE "raised"
  /\ UNCHANGED <<files, call_args, iter_order, lattice_args, model, text, parsed, outcome>>

\* TwistStructure(rl) on the constructed lattice.
TwistStructure_init ==
  /\ pc = "constructed"
  /\ outcome' = [kind |-> "TwistStructure", res |-> NewTwistStructure(lattice)]
  /\ pc' = "returned"
  /\ UNCHANGED <<files, call_args, iter_order, lattice_args, lattice, model, text, parsed>>

\* rl.meet_set(subset) and rl.join_set(subset) on the constructed lattice.
Lattice_meet_set(subset) ==
  /\ pc = "constructed"
  /\ outcome' = [kind |-> "meet_set", subset |-> subset,
                 res |-> meet_set(lattice, iter_order, subset)]
  /\ pc' = "returned"
  /\ UNCHANGED <<files, call_args, iter_order, lattice_args, lattice, model, text, parsed>>

Lattice_join_set(subset) ==
  /\ pc = "constructed"
  /\ outcome' = [kind |-> "join_set", subset |-> subset,
                 res |-> join_set(lattice, iter_order, subset)]
  /\ pc' = "returned"
  /\ UNCHANGED <<files, call_args, iter_order, lattice_args, lattice, model, text, parsed>>

InitLattice ==
  /\ iter_order \in Perms(Labels)
  /\ \E elems \in {S \in SUBSET Labels : Cardinality(S) <= MaxElements} :
        lattice_args \in [elements : {elems},
                          relations : SUBSET (elems \X elems),
                          implication_map : {EmptyDict}]
  /\ lattice = NoLattice
  /\ model = NoModel
  /\ text = <<>>
  /\ parsed = NoParse
  /\ outcome = NoOutcome
  /\ call_args = <<>>
  /\ files = NoFiles
  /\ pc = "new"

NextLattice == Lattice_init

SpecLattice == InitLattice /\ [][NextLattice]_vars

(***************************************************************************)
(* Parsing a formula string: FormulaParser(text).parse()                   *)
(***************************************************************************)
FormulaParser_parse ==
  /\ pc = "text"
  /\ parsed' = parse(text)
  /\ pc' = IF IsError(parsed'.tok) THEN "syntax_error" ELSE "parsed"
  /\ UNCHANGED <<files, call_args, iter_order, lattice_args, lattice, model, text, outcome>>

(***************************************************************************)
(* Evaluation entry point: root.evaluate(model, world, twist)              *)
(***************************************************************************)
\* Positions at which a formula has been parsed and calls can be made.
Ready == {"parsed", "evaluated", "called"}

AST_evaluate(world) ==
  /\ pc \in Ready
  /\ outcome' = [kind |-> "evaluate", world |-> world,
                 res |-> evaluate(parsed.node, model, world, lattice, iter_order)]
  /\ model' = evaluate_store(parsed.node, model, world, lattice, iter_order)
  /\ pc' = "evaluated"
  /\ UNCHANGED <<files, call_args, iter_order, lattice_args, lattice, text, parsed>>

\* root.get_atoms()
AST_get_atoms ==
  /\ pc \in Ready
  /\ outcome' = [kind |-> "get_atoms", res |-> get_atoms(parsed.node)]
  /\ pc' = "called"
  /\ UNCHANGED <<files, call_args, iter_order, lattice_args, lattice, model, text, parsed>>

\* model.get_relation_weight(action, source, target)
Model_get_relation_weight(action, source, target) ==
  /\ pc \in Ready
  /\ outcome' = [kind |-> "get_relation_weight",
                 res |-> get_relation_weight(model, lattice, action, source, target)]
  /\ model' = get_relation_weight_store(model, action, source, target)
  /\ pc' = "called"
  /\ UNCHANGED <<files, call_args, iter_order, lattice_args, lattice, text, parsed>>

(***************************************************************************)
(* MainWindow.check_model_validity (app.py)                                *)
(***************************************************************************)
\* The pre-check of the handler: atoms of the formula the world does not assign.
unknown(root, M, world) ==
  {a \in get_atoms(root) :
     a \notin DOMAIN M.assignments[world] /\ a # S_0 /\ upper(a) # S_BOT}

\* sorted(model.worlds, key=name_long)
sorted_worlds(M) == SelectSeq(WorldSeq, LAMBDA w : w \in M.worlds)

ValidityError == [kind |-> "validity", label |-> "Validity: Error",
                  validity_val |-> ErrPair, failed_worlds |-> <<>>]

\* The loop over sorted_worlds and the verdict after it.
RECURSIVE validity_loop(_, _, _, _, _, _, _)
validity_loop(root, M, L, ord, todo, results, failed_worlds) ==
  IF todo = <<>>
    THEN With(weak_meet_set(L, ord, results), LAMBDA validity_val :
           LET is_valid == (validity_val = <<L.top, L.bottom>>) /\ (failed_worlds = <<>>)
           IN IF IsErr(validity_val) THEN ValidityError
              ELSE [kind |-> "validity",
                    label |-> IF is_valid THEN "VALID" ELSE "INVALID",
                    validity_val |-> validity_val,
                    failed_worlds |-> failed_worlds])
  ELSE LET world == Head(todo)
       IN IF unknown(root, M, world) # {} THEN ValidityError
          ELSE With(evaluate(root, M, world, L, ord), LAMBDA res :
                 IF IsErr(res) THEN ValidityError
                 ELSE validity_loop(root, M, L, ord, Tail(todo), Append(results, res),
                                    IF res # <<L.top, L.bottom>>
                                      THEN Append(failed_worlds, world)
                                    ELSE failed_worlds))

check_model_validity ==
  /\ pc = "text"
  /\ parsed' = parse(text)
  /\ outcome' = IF text = <<>> \/ IsError(parsed'.tok) THEN ValidityError
                ELSE validity_loop(parsed'.node, model, lattice, iter_order,
                                   sorted_worlds(model), <<>>, <<>>)
  /\ pc' = "checked"
  /\ UNCHANGED <<files, call_args, iter_order, lattice_args, lattice, model, text>>

(***************************************************************************)
(* Inputs of the evaluation runs: lattices, models and formula strings     *)
(***************************************************************************)
\* Largest number of AST nodes of the formulas that are evaluated.
MaxSize == 3

ChainOrder(seq) ==
  UNION {{<<seq[i], seq[j]>> : j \in i..Len(seq)} : i \in DOMAIN seq}

\* The implication "1 if a <= b else b" over the given elements.
GoedelImplication(elems, rels) ==
  [pr \in elems \X elems |-> IF pr \in rels THEN "1" ELSE pr[2]]

Restrict(f, S) == [x \in S |-> f[x]]

\* A relation the constructor accepts although it is no lattice order.
CyclicOrder ==
  {<<x, x>> : x \in Labels} \cup
  {<<"1", "a">>, <<"1", "b">>, <<"a", "0">>, <<"b", "1">>, <<"b", "0">>,
   <<"0", "1">>, <<"0", "b">>}

LatticeInputs ==
  { [elements |-> {"0", "1"}, relations |-> ChainOrder(<<"0", "1">>),
     implication_map |-> GoedelImplication({"0", "1"}, ChainOrder(<<"0", "1">>))],
    [elements |-> {"0", "a", "1"}, relations |-> ChainOrder(<<"0", "a", "1">>),
     implication_map |-> Restrict(
         GoedelImplication({"0", "a", "1"}, ChainOrder(<<"0", "a", "1">>)),
         ({"0", "a", "1"} \X {"0", "a", "1"}) \ {<<"a", "0">>})],
    [elements |-> Labels, relations |-> CyclicOrder,
     implication_map |-> GoedelImplication(Labels, CyclicOrder)] }

IterOrders == {<<"0", "1", "a", "b">>, <<"a", "0", "b", "1">>}

\* Proposition and action names.
S_p == <<"p">>
S_a == <<"a">>

Absent == <<"absent">>
RawValues1 == {Tuple("1", "0"), Bare("a")}
RawValues2 == {Tuple("0", "1"), Absent}
Weights12 == {Absent, <<"1", "0">>, <<"a", "1">>}
Weights11 == {Absent, <<"1", "0">>}
Weights21 == {Absent, NoWeight, <<"0", "1">>}

AssignmentsOf(v) == IF v = Absent THEN EmptyDict ELSE [x \in {S_p} |-> v]

TargetsOf(e1, e2) ==
  [t \in {w \in Worlds : (w = "w1" /\ e1 # Absent) \/ (w = "w2" /\ e2 # Absent)} |->
     IF t = "w1" THEN e1 ELSE e2]

ModelInputs ==
  { Model_init(Worlds,
               [w \in Worlds |-> AssignmentsOf(IF w = "w1" THEN v1 ELSE v2)],
               [action \in {S_a} |->
                  [src \in Worlds |->
                     IF src = "w1" THEN TargetsOf(e11, e12) ELSE TargetsOf(e21, Absent)]],
               {}) :
      v1 \in RawValues1, v2 \in RawValues2,
      e12 \in Weights12, e11 \in Weights11, e21 \in Weights21 }
  \cup
  { Model_init({}, [w \in Worlds |-> EmptyDict], EmptyDict, acts) :
      acts \in {{}, {S_a}} }

RECURSIVE FormulasOfSize(_)
FormulasOfSize(n) ==
  IF n = 1 THEN {Atom(S_p), Atom(S_1)}
  ELSE {Not(c) : c \in FormulasOfSize(n - 1)}
       \cup {Diamond(c, S_a) : c \in FormulasOfSize(n - 1)}
       \cup {Box(c, S_a) : c \in FormulasOfSize(n - 1)}
       \cup UNION { { <<op, l, r>> : op \in BinaryOps,
                                     l \in FormulasOfSize(i),
                                     r \in FormulasOfSize(n - 1 - i) } :
                    i \in 1..(n - 2) }

Formulas == UNION {FormulasOfSize(n) : n \in 1..MaxSize}

BinarySymbol(op) ==
  CASE op = "And" -> <<"&">>
    [] op = "Or" -> <<"|">>
    [] op = "MaterialImplies" -> <<"-", ">">>
    [] op = "MaterialIff" -> <<"<", "-", ">">>
    [] op = "Implies" -> <<"=", ">">>
    [] op = "Iff" -> <<"<", "=", ">">>

\* The formula string a user writes for an AST, binary nodes parenthesised.
RECURSIVE Unparse(_)
Unparse(node) ==
  IF node[1] = "Atom" THEN node[2]
  ELSE IF node[1] = "Not" THEN <<"~">> \o Unparse(node[2])
  ELSE IF node[1] = "Diamond" THEN <<"<">> \o node[3] \o <<">">> \o Unparse(node[2])
  ELSE IF node[1] = "Box" THEN <<"[">> \o node[3] \o <<"]">> \o Unparse(node[2])
  ELSE <<"(">> \o Unparse(node[2]) \o BinarySymbol(node[1]) \o Unparse(node[3]) \o <<")">>

InitEval ==
  /\ iter_order \in IterOrders
  /\ lattice_args \in LatticeInputs
  /\ lattice = NewLattice(lattice_args.elements, lattice_args.relations,
                          lattice_args.implication_map, iter_order)
  /\ lattice.valid
  /\ model \in ModelInputs
  /\ text \in {Unparse(f) : f \in Formulas}
  /\ parsed = NoParse
  /\ outcome = NoOutcome
  /\ call_args = <<>>
  /\ files = NoFiles
  /\ pc = "text"

NextEval ==
  \/ FormulaParser_parse
  \/ \E world \in model.worlds : AST_evaluate(world)
  \/ check_model_validity

SpecEval == InitEval /\ [][NextEval]_vars

(***************************************************************************)
(* Runs of calls in any order on one parsed formula: formulas over the     *)
(* actions a and b, models that define only a                              *)
(***************************************************************************)
S_b == <<"b">>
ActionNames == {S_a, S_b}

RECURSIVE CallFormulasOfSize(_)
CallFormulasOfSize(n) ==
  IF n = 1 THEN {Atom(S_p), Atom(S_1)}
  ELSE {Not(c) : c \in CallFormulasOfSize(n - 1)}
       \cup {Diamond(c, act) : c \in CallFormulasOfSize(n - 1), act \in ActionNames}
       \cup {Box(c, act) : c \in CallFormulasOfSize(n - 1), act \in ActionNames}
       \cup UNION { { <<op, l, r>> : op \in {"And", "Implies"},
                                     l \in CallFormulasOfSize(i),
                                     r \in CallFormulasOfSize(n - 1 - i) } :
                    i \in 1..(n - 2) }

\* The two-element chain with an implication table that has no entry for
\* the pair (0, 0).
PartialTableLattice ==
  [elements |-> {"0", "1"}, relations |-> ChainOrder(<<"0", "1">>),
   implication_map |-> Restrict(
       GoedelImplication({"0", "1"}, ChainOrder(<<"0", "1">>)),
       ({"0", "1"} \X {"0", "1"}) \ {<<"0", "0">>})]

CallModelInputs ==
  { Model_init(Worlds,
               [w \in Worlds |-> AssignmentsOf(IF w = "w1" THEN Tuple("1", "0") ELSE v2)],
               [action \in {S_a} |->
                  [src \in Worlds |->
                     IF src = "w1" THEN TargetsOf(e11, e12) ELSE TargetsOf(e21, Absent)]],
               {}) :
      v2 \in RawValues2, e12 \in Weights12, e11 \in Weights11, e21 \in Weights21 }

InitCalls ==
  /\ iter_order = <<"0", "1", "a", "b">>
  /\ lattice_args \in {la \in LatticeInputs : la.elements # Labels}
                      \cup {PartialTableLattice}
  /\ lattice = NewLattice(lattice_args.elements, lattice_args.relations,
                          lattice_args.implication_map, iter_order)
  /\ lattice.valid
  /\ model \in CallModelInputs
  /\ \E n \in 1..MaxSize : \E f \in CallFormulasOfSize(n) : text = Unparse(f)
  /\ parsed = NoParse
  /\ outcome = NoOutcome
  /\ call_args = <<>>
  /\ files = NoFiles
  /\ pc = "text"

NextCalls ==
  \/ FormulaParser_parse
  \/ \E world \in model.worlds : AST_evaluate(world)
  \/ AST_get_atoms
  \/ \E action \in ActionNames : \E source \in Worlds : \E target \in Worlds :
        Model_get_relation_weight(action, source, target)

SpecCalls == InitCalls /\ [][NextCalls]_vars

(***************************************************************************)
(* The sample structure: the lattice {0,1} with its implication table, the *)
(* worlds w1 (assigning p) and w2 (assigning q), one action a              *)
(***************************************************************************)
S_q == <<"q">>

SampleLattice ==
  [elements |-> {"0", "1"}, relations |-> {<<"0", "0">>, <<"1", "1">>, <<"0", "1">>},
   implication_map |-> (<<"0", "0">> :> "1" @@ <<"0", "1">> :> "1" @@
                        <<"1", "0">> :> "0" @@ <<"1", "1">> :> "1")]

\* The assignment strings "('t', 'f')" of the carrier pairs.
SampleValues == {Tuple(t, f) : t \in {"0", "1"}, f \in {"0", "1"}}

SampleModelInputs ==
  { Model_init(Worlds,
               [w \in Worlds |-> IF w = "w1" THEN [x \in {S_p} |-> v1]
                                 ELSE [x \in {S_q} |-> v2]],
               [action \in {S_a} |->
                  [src \in {"w1"} |-> TargetsOf(Absent, e12)]],
               {}) :
      v1 \in SampleValues, v2 \in SampleValues,
      e12 \in {Absent} \cup ({"0", "1"} \X {"0", "1"}) }

T_PAndNotP == <<"p", " ", "&", " ", "~", "p">>
T_NotP == <<"~", "p">>
T_DiamondQ == <<"<", "a", ">", "q">>
SampleTexts == {T_PAndNotP, T_NotP, T_DiamondQ, <<"[", "a", "]", "q">>, <<"p", "|", "~", "p">>}

InitSample ==
  /\ iter_order \in Perms(Labels)
  /\ lattice_args = SampleLattice
  /\ lattice = NewLattice(lattice_args.elements, lattice_args.relations,
                          lattice_args.implication_map, iter_order)
  /\ lattice.valid
  /\ model \in SampleModelInputs
  /\ text \in SampleTexts
  /\ parsed = NoParse
  /\ outcome = NoOutcome
  /\ call_args = <<>>
  /\ files = NoFiles
  /\ pc = "text"

NextSample ==
  \/ FormulaParser_parse
  \/ \E world \in model.worlds : AST_evaluate(world)

SpecSample == InitSample /\ [][NextSample]_vars

(***************************************************************************)
(* Formulas with the constants 1, TOP, 0, BOT, at worlds that may assign   *)
(* propositions of these very names                                        *)
(***************************************************************************)
ConstantNames == {S_TOP, S_BOT, S_1, S_0}

T_1 == <<"1">>
T_TOP == <<"T", "O", "P">>
T_0 == <<"0">>
T_BOT == <<"B", "O", "T">>

ConstantTexts ==
  {T_1, T_TOP, T_0, T_BOT, <<"t", "o", "p">>, <<"B", "o", "t">>,
   <<"~", "1">>, <<"<", "a", ">", "T", "O", "P">>, <<"[", "a", "]", "0">>,
   <<"p", " ", "&", " ", "0">>, <<"1", "|", "B", "O", "T">>,
   <<"T", "O", "P", "=", ">", "p">>}

\* w1 assigns p and the names of keys, each to val; w2 assigns nothing; one
\* edge from w2 to w1.
ConstantModelInputs ==
  { Model_init(Worlds,
               [w \in Worlds |->
                  IF w = "w1"
                    THEN [x \in keys \cup {S_p} |->
                            IF x = S_p THEN Tuple("1", "0") ELSE val]
                  ELSE EmptyDict],
               [action \in {S_a} |-> [src \in {"w2"} |-> [tgt \in {"w1"} |-> <<"1", "0">>]]],
               {}) :
      keys \in SUBSET ConstantNames, val \in {Tuple("0", "1"), Tuple("1", "1"), Bare("a")} }

InitConst ==
  /\ iter_order \in IterOrders
  /\ lattice_args \in LatticeInputs
  /\ lattice = NewLattice(lattice_args.elements, lattice_args.relations,
                          lattice_args.implication_map, iter_order)
  /\ lattice.valid
  /\ model \in ConstantModelInputs
  /\ text \in ConstantTexts
  /\ parsed = NoParse
  /\ outcome = NoOutcome
  /\ call_args = <<>>
  /\ files = NoFiles
  /\ pc = "text"

NextConst ==
  \/ FormulaParser_parse
  \/ \E world \in model.worlds : AST_evaluate(world)
  \/ AST_get_atoms

SpecConst == InitConst /\ [][NextConst]_vars

(***************************************************************************)
(* Calls of the TwistStructure operations on pairs of its carrier          *)
(***************************************************************************)
\* Largest number of pairs passed to one call.
MaxPairs == 2

TwistIterOrders ==
  IterOrders \cup {<<"1", "0", "b", "a">>, <<"b", "a", "1", "0">>}

\* twist.negation(pair)
Twist_negation ==
  /\ pc = "twist" /\ Len(call_args) = 1
  /\ outcome' = [kind |-> "negation", res |-> negation(call_args[1])]
  /\ pc' = "returned"
  /\ UNCHANGED <<files, call_args, iter_order, lattice_args, lattice, model, text, parsed>>

\* twist.weak_meet_set(pairs)
Twist_weak_meet_set ==
  /\ pc = "twist"
  /\ outcome' = [kind |-> "weak_meet_set",
                 res |-> weak_meet_set(lattice, iter_order, call_args)]
  /\ pc' = "returned"
  /\ UNCHANGED <<files, call_args, iter_order, lattice_args, lattice, model, text, parsed>>

\* twist.weak_join_set(pairs)
Twist_weak_join_set ==
  /\ pc = "twist"
  /\ outcome' = [kind |-> "weak_join_set",
                 res |-> weak_join_set(lattice, iter_order, call_args)]
  /\ pc' = "returned"
  /\ UNCHANGED <<files, call_args, iter_order, lattice_args, lattice, model, text, parsed>>

\* twist.weak_meet(pair1, pair2), weak_join, consensus, accept_all,
\* residue_meet, implication
Twist_weak_meet ==
  /\ pc = "twist" /\ Len(call_args) = 2
  /\ outcome' = [kind |-> "weak_meet",
                 res |-> weak_meet(lattice, iter_order, call_args[1], call_args[2])]
  /\ pc' = "returned"
  /\ UNCHANGED <<files, call_args, iter_order, lattice_args, lattice, model, text, parsed>>

Twist_weak_join ==
  /\ pc = "twist" /\ Len(call_args) = 2
  /\ outcome' = [kind |-> "weak_join",
                 res |-> weak_join(lattice, iter_order, call_args[1], call_args[2])]
  /\ pc' = "returned"
  /\ UNCHANGED <<files, call_args, iter_order, lattice_args, lattice, model, text, parsed>>

Twist_consensus ==
  /\ pc = "twist" /\ Len(call_args) = 2
  /\ outcome' = [kind |-> "consensus",
                 res |-> consensus(lattice, iter_order, call_args[1], call_args[2])]
  /\ pc' = "returned"
  /\ UNCHANGED <<files, call_args, iter_order, lattice_args, lattice, model, text, parsed>>

Twist_accept_all ==
  /\ pc = "twist" /\ Len(call_args) = 2
  /\ outcome' = [kind |-> "accept_all",
                 res |-> accept_all(lattice, iter_order, call_args[1], call_args[2])]
  /\ pc' = "returned"
  /\ UNCHANGED <<files, call_args, iter_order, lattice_args, lattice, model, text, parsed>>

Twist_residue_meet ==
  /\ pc = "twist" /\ Len(call_args) = 2
  /\ outcome' = [kind |-> "residue_meet",
                 res |-> residue_meet(lattice, iter_order, call_args[1], call_args[2])]
  /\ pc' = "returned"
  /\ UNCHANGED <<files, call_args, iter_order, lattice_args, lattice, model, text, parsed>>

Twist_implication ==
  /\ pc = "twist" /\ Len(call_args) = 2
  /\ outcome' = [kind |-> "implication",
                 res |-> twist_implication(lattice, iter_order, call_args[1], call_args[2])]
  /\ pc' = "returned"
  /\ UNCHANGED <<files, call_args, iter_order, lattice_args, lattice, model, text, parsed>>

InitTwist ==
  /\ iter_order \in TwistIterOrders
  /\ lattice_args \in LatticeInputs
  /\ lattice = NewLattice(lattice_args.elements, lattice_args.relations,
                          lattice_args.implication_map, iter_order)
  /\ lattice.valid
  /\ model = NoModel
  /\ text = <<>>
  /\ parsed = NoParse
  /\ outcome = NoOutcome
  /\ \E n \in 0..MaxPairs : call_args \in [1..n -> twist_elements(lattice)]
  /\ files = NoFiles
  /\ pc = "twist"

NextTwist ==
  \/ Twist_negation
  \/ Twist_weak_meet_set
  \/ Twist_weak_join_set
  \/ Twist_weak_meet
  \/ Twist_weak_join
  \/ Twist_consensus
  \/ Twist_accept_all
  \/ Twist_residue_meet
  \/ Twist_implication

SpecTwist == InitTwist /\ [][NextTwist]_vars

(***************************************************************************)
(* Construction of a lattice from any relation over a few labels, then of  *)
(* its TwistStructure, and calls of meet_set / join_set on it              *)
(***************************************************************************)
InitBase ==
  /\ iter_order \in TwistIterOrders
  /\ \E elems \in {S \in SUBSET Labels : Cardinality(S) <= MaxElements} :
        lattice_args \in [elements : {elems},
                          relations : SUBSET (elems \X elems),
                          implication_map : {EmptyDict}]
  /\ lattice = NoLattice
  /\ model = NoModel
  /\ text = <<>>
  /\ parsed = NoParse
  /\ outcome = NoOutcome
  /\ call_args = <<>>
  /\ files = NoFiles
  /\ pc = "new"

NextBase ==
  \/ Lattice_init
  \/ TwistStructure_init
  \/ \E subset \in SUBSET lattice.elements : Lattice_meet_set(subset)
  \/ \E subset \in SUBSET lattice.elements : Lattice_join_set(subset)

SpecBase == InitBase /\ [][NextBase]_vars

(***************************************************************************)
(* Persistence (json_handler.py).  files.lattices, files.residuated_lattices *)
(* and files.twist_structures are the lists data['lattices'], ... of the   *)
(* three JSON files.  A save removes the entry of the same name before it  *)
(* appends, so the names of a list are pairwise different and the list is  *)
(* written as a function from the name to the other fields of the entry.   *)
(* JSON lists that are read back with set(...) are written as sets.        *)
(***************************************************************************)
\* None returned where an object is expected.
NoObject == [object |-> None]

DictSet(d, key, value) ==
  [k \in DOMAIN d \cup {key} |-> IF k = key THEN value ELSE d[k]]

DictDel(d, key) == [k \in DOMAIN d \ {key} |-> d[k]]

\* str(k) of a key (a, b) of the implication map, and literal_eval of it.
KeyStr(k) == <<"(", k[1], ",", k[2], ")">>
literal_eval_key(key_str) == <<key_str[2], key_str[4]>>

save_lattice_to_json(data, name, new_lattice) ==
  LET imp_map_str == [key_str \in {KeyStr(k) : k \in DOMAIN new_lattice.implication_map} |->
                        new_lattice.implication_map[literal_eval_key(key_str)]]
      l_dict == [elements |-> new_lattice.elements,
                 relations |-> new_lattice.relations,
                 implication_map |-> imp_map_str]
  IN [data EXCEPT !.lattices = DictSet(data.lattices, name, l_dict)]

delete_lattice_from_json(data, lattice_name) ==
  [data EXCEPT !.lattices = DictDel(data.lattices, lattice_name)]

\* The Lattice built from the stored entry; None when there is no entry of
\* that name or the constructor raises (the exception is caught).
load_lattice_from_json(data, lattice_name, ord) ==
  IF lattice_name \notin DOMAIN data.lattices THEN NoObject
  ELSE LET l_data == data.lattices[lattice_name]
           raw_imp == l_data.implication_map
           implication_map == [k \in {literal_eval_key(key_str) : key_str \in DOMAIN raw_imp} |->
                                 raw_imp[KeyStr(k)]]
       IN With(NewLattice(l_data.elements, l_data.relations, implication_map, ord),
               LAMBDA L : IF L.valid THEN [name |-> lattice_name, lattice |-> L] ELSE NoObject)

save_residuated_lattice_to_json(data, new_rl) ==
  [data EXCEPT !.residuated_lattices =
     DictSet(data.residuated_lattices, new_rl.name_residuated_lattice,
             [name_lattice |-> new_rl.name])]

delete_residuated_lattice_from_json(data, rl_name) ==
  [data EXCEPT !.residuated_lattices = DictDel(data.residuated_lattices, rl_name)]

\* ResiduatedLattice(rl_name, base.name, base.elements, base.relations,
\* base.implication_map) of the base lattice loaded by name; None without it.
load_residuated_lattice_from_json(data, rl_name, ord) ==
  IF rl_name \notin DOMAIN data.residuated_lattices THEN NoObject
  ELSE With(load_lattice_from_json(data, data.residuated_lattices[rl_name].name_lattice, ord),
            LAMBDA base :
              IF base = NoObject THEN NoObject
              ELSE [name_residuated_lattice |-> rl_name, name |-> base.name,
                    lattice |-> NewLattice(base.lattice.elements, base.lattice.relations,
                                           base.lattice.implication_map, ord)])

\* TwistStructure(rl) as an object that knows its residuated lattice.
TwistStructureOf(rl) ==
  With(NewTwistStructure(rl.lattice), LAMBDA ts :
    [residuated_lattice |-> rl, elements |-> ts.elements,
     truth_relation |-> ts.truth_relation,
     qntt_info_relation |-> ts.qntt_info_relation])

save_twist_structure_to_json(data, new_ts, name) ==
  [data EXCEPT !.twist_structures =
     DictSet(data.twist_structures, name,
             [residuated_lattice_name |-> new_ts.residuated_lattice.name_residuated_lattice,
              elements |-> new_ts.elements,
              truth_relation |-> new_ts.truth_relation,
              qntt_info_relation |-> new_ts.qntt_info_relation])]

delete_twist_structure_from_json(data, ts_name) ==
  [data EXCEPT !.twist_structures = DictDel(data.twist_structures, ts_name)]

\* load_twist_structure_from_json that keeps what TwistStructure(rl) computed.
load_twist_structure_from_json_Recomputed(data, ts_name, ord) ==
  IF ts_name \notin DOMAIN data.twist_structures THEN NoObject
  ELSE With(load_residuated_lattice_from_json(
              data, data.twist_structures[ts_name].residuated_lattice_name, ord),
            LAMBDA rl : IF rl = NoObject THEN NoObject ELSE TwistStructureOf(rl))

load_twist_structure_from_json(data, ts_name, ord) ==
  IF ts_name \notin DOMAIN data.twist_structures THEN NoObject
  ELSE LET ts_data == data.twist_structures[ts_name]
       IN With(load_residuated_lattice_from_json(data, ts_data.residuated_lattice_name, ord),
               LAMBDA rl :
                 IF rl = NoObject THEN NoObject
                 ELSE With(TwistStructureOf(rl), LAMBDA ts :
                   [residuated_lattice |-> rl,
                    elements |-> IF "elements" \in DOMAIN ts_data
                                   THEN ts_data.elements ELSE ts.elements,
                    truth_relation |-> IF "truth_relation" \in DOMAIN ts_data
                                         THEN ts_data.truth_relation ELSE ts.truth_relation,
                    qntt_info_relation |-> IF "qntt_info_relation" \in DOMAIN ts_data
                                             THEN ts_data.qntt_info_relation
                                           ELSE ts.qntt_info_relation]))

\* Names and lattices used by the persistence runs.
LatticeNames == {"L1", "L2"}
RLNames == {"R"}
TSNames == {"T"}

StoreLatticeInputs ==
  { [elements |-> {"0", "1"}, relations |-> ChainOrder(<<"0", "1">>),
     implication_map |-> GoedelImplication({"0", "1"}, ChainOrder(<<"0", "1">>))],
    [elements |-> {"0", "1"}, relations |-> ChainOrder(<<"1", "0">>),
     implication_map |-> GoedelImplication({"0", "1"}, ChainOrder(<<"1", "0">>))],
    [elements |-> {"0", "a", "1"}, relations |-> ChainOrder(<<"0", "a", "1">>),
     implication_map |-> GoedelImplication({"0", "a", "1"}, ChainOrder(<<"0", "a", "1">>))] }

\* Saving a newly constructed Lattice under a name (overwrites by name).
JSON_save_lattice(name, la) ==
  /\ pc = "store"
  /\ NewLattice(la.elements, la.relations, la.implication_map, iter_order).valid
  /\ files' = save_lattice_to_json(
                files, name,
                NewLattice(la.elements, la.relations, la.implication_map, iter_order))
  /\ UNCHANGED <<call_args, iter_order, lattice_args, lattice, model, text, parsed,
                 outcome, pc>>

JSON_delete_lattice(name) ==
  /\ pc = "store"
  /\ files' = delete_lattice_from_json(files, name)
  /\ UNCHANGED <<call_args, iter_order, lattice_args, lattice, model, text, parsed,
                 outcome, pc>>

\* Saving the ResiduatedLattice made from a lattice loaded by name.
JSON_save_residuated_lattice(rl_name, lattice_name) ==
  /\ pc = "store"
  /\ load_lattice_from_json(files, lattice_name, iter_order) # NoObject
  /\ files' = save_residuated_lattice_to_json(
                files, [name_residuated_lattice |-> rl_name, name |-> lattice_name])
  /\ UNCHANGED <<call_args, iter_order, lattice_args, lattice, model, text, parsed,
                 outcome, pc>>

JSON_delete_residuated_lattice(rl_name) ==
  /\ pc = "store"
  /\ files' = delete_residuated_lattice_from_json(files, rl_name)
  /\ UNCHANGED <<call_args, iter_order, lattice_args, lattice, model, text, parsed,
                 outcome, pc>>

\* Saving TwistStructure(rl) of a residuated lattice loaded by name.
JSON_save_twist_structure(ts_name, rl_name) ==
  /\ pc = "store"
  /\ load_residuated_lattice_from_json(files, rl_name, iter_order) # NoObject
  /\ files' = save_twist_structure_to_json(
                files,
                TwistStructureOf(load_residuated_lattice_from_json(files, rl_name, iter_order)),
                ts_name)
  /\ UNCHANGED <<call_args, iter_order, lattice_args, lattice, model, text, parsed,
                 outcome, pc>>

JSON_delete_twist_structure(ts_name) ==
  /\ pc = "store"
  /\ files' = delete_twist_structure_from_json(files, ts_name)
  /\ UNCHANGED <<call_args, iter_order, lattice_args, lattice, model, text, parsed,
                 outcome, pc>>

JSON_load_twist_structure(ts_name) ==
  /\ pc = "store"
  /\ outcome' = [kind |-> "load_twist_structure", name |-> ts_name,
                 res |-> load_twist_structure_from_json(files, ts_name, iter_order)]
  /\ UNCHANGED <<files, call_args, iter_order, lattice_args, lattice, model, text, parsed, pc>>

InitStore ==
  /\ iter_order \in IterOrders
  /\ lattice_args = NoLattice
  /\ lattice = NoLattice
  /\ model = NoModel
  /\ text = <<>>
  /\ parsed = NoParse
  /\ outcome = NoOutcome
  /\ call_args = <<>>
  /\ files = NoFiles
  /\ pc = "store"

NextStore ==
  \/ \E name \in LatticeNames : \E la \in StoreLatticeInputs : JSON_save_lattice(name, la)
  \/ \E name \in LatticeNames : JSON_delete_lattice(name)
  \/ \E rl_name \in RLNames : \E name \in LatticeNames :
        JSON_save_residuated_lattice(rl_name, name)
  \/ \E rl_name \in RLNames : JSON_delete_residuated_lattice(rl_name)
  \/ \E ts_name \in TSNames : \E rl_name \in RLNames :
        JSON_save_twist_structure(ts_name, rl_name)
  \/ \E ts_name \in TSNames : JSON_delete_twist_structure(ts_name)
  \/ \E ts_name \in TSNames : JSON_load_twist_structure(ts_name)

SpecStore == InitStore /\ [][NextStore]_vars

(***************************************************************************)
(* Inputs of the parsing runs: formula strings                             *)
(***************************************************************************)
\* Largest number of pieces concatenated into an arbitrary formula string.
MaxPieces == 3
\* Largest number of tokens of a parenthesis-free operator chain.
MaxChain == 5

Pieces ==
  { <<"p">>, <<"a">>, <<"~">>, <<"&">>, <<"|">>, <<"(">>, <<")">>, <<" ">>,
    <<"-", ">">>, <<"=", ">">>, <<"<", "-", ">">>, <<"<", "=", ">">>,
    <<"[", "a", "]">>, <<"<", "a", ">">>,
    <<"<">>, <<">">>, <<"[">>, <<"]">>, <<"-">>, <<"=">>, <<"#">> }

RECURSIVE Flatten(_)
Flatten(seqs) == IF seqs = <<>> THEN <<>> ELSE Head(seqs) \o Flatten(Tail(seqs))

\* The strings made of n pieces.
PieceTexts(n) == {Flatten(ps) : ps \in [1..n -> Pieces]}

PrefixPieces == { <<"~">>, <<"[", "a", "]">>, <<"<", "a", ">">> }
BinaryPieces == { <<"&">>, <<"|">>, <<"-", ">">>, <<"=", ">">>, <<"<", "-", ">">> }
AtomNames == << <<"p">>, <<"q">>, <<"r">>, <<"s">> >>

\* Operands of n tokens: n - 1 prefixes before the atom of the operand, which
\* is named after the position idx of the operand in its chain.
RECURSIVE OperandsOf(_, _)
OperandsOf(n, idx) ==
  IF n = 1 THEN { << AtomNames[((idx - 1) % Len(AtomNames)) + 1] >> }
  ELSE { <<pre>> \o rest : pre \in PrefixPieces, rest \in OperandsOf(n - 1, idx) }

\* Chains operand (binop operand)* of n tokens, as sequences of pieces.
RECURSIVE ChainsOf(_, _)
ChainsOf(n, idx) ==
  OperandsOf(n, idx)
  \cup UNION { { o \o <<b>> \o c : o \in OperandsOf(k, idx), b \in BinaryPieces,
                                    c \in ChainsOf(n - k - 1, idx + 1) } :
               k \in 1..(n - 2) }

Join(ps, sep) ==
  IF ps = <<>> THEN <<>>
  ELSE Head(ps) \o Flatten([i \in 1..(Len(ps) - 1) |-> sep \o ps[i + 1]])

\* The chains of n tokens, written with and without blanks between tokens.
ChainTexts(n) == {Join(c, sep) : c \in ChainsOf(n, 1), sep \in {<<>>, <<" ">>}}

InitParse ==
  /\ iter_order = <<>>
  /\ lattice_args = NoLattice
  /\ lattice = NoLattice
  /\ model = NoModel
  /\ \/ \E n \in 0..MaxPieces : text \in PieceTexts(n)
     \/ \E n \in 1..MaxChain : text \in ChainTexts(n)
  /\ parsed = NoParse
  /\ outcome = NoOutcome
  /\ call_args = <<>>
  /\ files = NoFiles
  /\ pc = "text"

NextParse == FormulaParser_parse

SpecParse == InitParse /\ [][NextParse]_vars

(***************************************************************************)
(* Order-theoretic notions used to state the lattice claims                *)
(***************************************************************************)
Leq(rels, a, b) == <<a, b>> \in rels

\* the least upper bounds / greatest lower bounds of a, b among elems
Lubs(elems, rels, a, b) ==
  LET ub == {x \in elems : Leq(rels, a, x) /\ Leq(rels, b, x)}
  IN {x \in ub : \A y \in ub : Leq(rels, x, y)}

Glbs(elems, rels, a, b) ==
  LET lb == {x \in elems : Leq(rels, x, a) /\ Leq(rels, x, b)}
  IN {x \in lb : \A y \in lb : Leq(rels, y, x)}

IsLatticeOrder(elems, rels) ==
  \A a \in elems : \A b \in elems :
     /\ Cardinality(Lubs(elems, rels, a, b)) = 1
     /\ Cardinality(Glbs(elems, rels, a, b)) = 1

\* C1: construction succeeds only when every pair of elements has exactly
\* one least upper bound and exactly one greatest lower bound under the order.
C1_ConstructionOnlyOfLatticeOrders ==
  pc = "constructed" => IsLatticeOrder(lattice_args.elements, lattice_args.relations)

(***************************************************************************)
(* Claims about evaluation                                                 *)
(***************************************************************************)
Evaluated == pc = "evaluated"
Root == parsed.node

\* The targets stored under accessibility_relations[action][world].
StoredTargets(M, action, world) ==
  IF action \in DOMAIN M.accessibility_relations
     /\ world \in DOMAIN M.accessibility_relations[action]
  THEN DOMAIN M.accessibility_relations[action][world]
  ELSE {}

\* The values residue_meet(R[a][w][v], eval(phi at v)) over the stored targets.
DiamondValues(phi, action, world) ==
  {residue_meet(lattice, iter_order,
                model.accessibility_relations[action][world][v],
                evaluate(phi, model, v, lattice, iter_order)) :
     v \in StoredTargets(model, action, world)}

\* C2: Diamond(phi, a) at w, for a in model.actions, is weak_join_set of the
\* values residue_meet(R[a][w][v], eval(phi at v)) over exactly the stored
\* targets v (in whatever order they are listed), and (bottom, top) when no
\* target is stored; it fails when one of those values cannot be computed.
C2_DiamondIsWeakJoinOverStoredTargets ==
  (Evaluated /\ Root[1] = "Diamond" /\ Root[3] \in model.actions) =>
     LET vals == DiamondValues(Root[2], Root[3], outcome.world)
     IN /\ vals = {} => outcome.res = <<lattice.bottom, lattice.top>>
        /\ (\E v \in vals : IsErr(v)) => IsErr(outcome.res)
        /\ (\A v \in vals : ~IsErr(v)) =>
              \A listing \in Perms(vals) :
                 outcome.res = weak_join_set(lattice, iter_order, listing)

C2_Witness ==
  /\ Evaluated /\ Root[1] = "Diamond" /\ Root[3] \in model.actions
  /\ Cardinality(StoredTargets(model, Root[3], outcome.world)) = 2
  /\ Cardinality(DiamondValues(Root[2], Root[3], outcome.world)) = 2
  /\ ~IsErr(outcome.res)
  /\ outcome.res # <<lattice.bottom, lattice.top>>

\* C3: Box(child, a) evaluates to negation(Diamond(Not(child), a)) evaluated
\* on its own at the same world, and fails exactly when that Diamond fails.
C3_BoxDiamondDuality ==
  (Evaluated /\ Root[1] = "Box") =>
     LET d == evaluate(Diamond(Not(Root[2]), Root[3]), model, outcome.world,
                       lattice, iter_order)
     IN /\ IsErr(outcome.res) <=> IsErr(d)
        /\ ~IsErr(d) => outcome.res = <<d[2], d[1]>>

C3_Witness ==
  /\ Evaluated /\ Root[1] = "Box"
  /\ StoredTargets(model, Root[3], outcome.world) # {}
  /\ ~IsErr(outcome.res)
  /\ outcome.res[1] # outcome.res[2]

RECURSIVE NonModal(_)
NonModal(node) ==
  IF node[1] = "Atom" THEN TRUE
  ELSE IF node[1] \in ModalOps THEN FALSE
  ELSE IF node[1] \in UnaryOps THEN NonModal(node[2])
  ELSE NonModal(node[2]) /\ NonModal(node[3])

\* C4: for a formula phi without modal operators, Not(Not(phi)) evaluates to
\* the pair phi evaluates to, and fails exactly when phi fails.
C4_DoubleNegation ==
  (Evaluated /\ NonModal(Root)) =>
     /\ evaluate(Not(Not(Root)), model, outcome.world, lattice, iter_order) = outcome.res
     /\ (Root[1] = "Not" /\ Root[2][1] = "Not") =>
           outcome.res = evaluate(Root[2][2], model, outcome.world, lattice, iter_order)

C4_Witness ==
  /\ Evaluated /\ NonModal(Root)
  /\ Root = Not(Not(Atom(S_p)))
  /\ ~IsErr(outcome.res)
  /\ outcome.res[1] # outcome.res[2]

\* Every world of the model passes the pre-check and evaluates the formula.
EvaluatesAtAllWorlds ==
  \A w \in model.worlds :
     /\ unknown(Root, model, w) = {}
     /\ ~IsErr(evaluate(Root, model, w, lattice, iter_order))

\* C10: when the formula evaluates at all worlds, the check declares VALID
\* if and only if evaluate returns (top, bottom) at every world of the model.
C10_ValidIffTopAtEveryWorld ==
  (pc = "checked" /\ ~IsError(parsed.tok) /\ EvaluatesAtAllWorlds) =>
     (outcome.label = "VALID" <=>
        \A w \in model.worlds :
           evaluate(Root, model, w, lattice, iter_order) = <<lattice.top, lattice.bottom>>)

\* The Atom.evaluate calls made while node is evaluated at world, as pairs
\* <<name, world of the call>>: a binary node evaluates its left child and
\* then its right child, a Diamond its child at each stored target in turn,
\* and nothing is evaluated after the first call that raises.
RECURSIVE atoms_reached(_, _, _, _, _)
RECURSIVE atoms_reached_targets(_, _, _, _, _, _)
atoms_reached_targets(child, targets_map, targets, M, L, ord) ==
  IF targets = <<>> THEN {}
  ELSE LET val_succ == evaluate(child, M, Head(targets), L, ord)
       IN atoms_reached(child, M, Head(targets), L, ord)
          \cup IF IsErr(val_succ)
                  \/ IsErr(residue_meet(L, ord, targets_map[Head(targets)], val_succ))
               THEN {}
               ELSE atoms_reached_targets(child, targets_map, Tail(targets), M, L, ord)

atoms_reached(node, M, world, L, ord) ==
  IF node[1] = "Atom" THEN {<<node[2], world>>}
  ELSE IF node[1] = "Not" THEN atoms_reached(node[2], M, world, L, ord)
  ELSE IF node[1] \in ModalOps
    THEN IF node[3] \notin M.actions THEN {}
         ELSE LET targets_map == DictGet(DictGet(M.accessibility_relations, node[3]), world)
                  targets == SelectSeq(WorldSeq, LAMBDA t : t \in DOMAIN targets_map)
              IN atoms_reached_targets(IF node[1] = "Box" THEN Not(node[2]) ELSE node[2],
                                       targets_map, targets, M, L, ord)
  ELSE atoms_reached(node[2], M, world, L, ord)
       \cup IF IsErr(evaluate(node[2], M, world, L, ord)) THEN {}
            ELSE atoms_reached(node[3], M, world, L, ord)

\* An Atom.evaluate call that finds no assignment: the name is no constant
\* and no key of the assignments of the world of the call.
UndefinedAt(M, call) ==
  /\ call[1] \notin {S_TOP, S_BOT, S_1, S_0}
  /\ call[1] \notin DOMAIN M.assignments[call[2]]

\* C11: when every name of get_atoms() of the formula is a key of the
\* assignments of the world w it is evaluated at, the evaluation makes no
\* Atom.evaluate call that fails for want of an assignment.
C11_GetAtomsPrevalidationSuffices ==
  (Evaluated /\ get_atoms(Root) \subseteq DOMAIN model.assignments[outcome.world]) =>
     \A call \in atoms_reached(Root, model, outcome.world, lattice, iter_order) :
        ~UndefinedAt(model, call)

\* The actions named by the Diamond and Box nodes of a formula.
RECURSIVE actions_of(_)
actions_of(node) ==
  IF node[1] = "Atom" THEN {}
  ELSE IF node[1] \in ModalOps THEN {node[3]} \cup actions_of(node[2])
  ELSE IF node[1] \in UnaryOps THEN actions_of(node[2])
  ELSE actions_of(node[2]) \cup actions_of(node[3])

\* C12: evaluating a formula that has a Diamond or Box node whose action is
\* not in model.actions raises an error, wherever that node stands in the
\* formula and whatever successors the worlds have.
C12_UndefinedActionRaises ==
  (Evaluated /\ ~(actions_of(Root) \subseteq model.actions)) => IsErr(outcome.res)

\* C13: no parse, evaluate, get_atoms or get_relation_weight call, returning
\* or raising, changes the Model (worlds, actions, World assignments, the key
\* sets and weights of accessibility_relations) or the TwistStructure.
C13_CallsAreReadOnly ==
  [][model' = model /\ lattice' = lattice]_vars

\* A Diamond or Box evaluated at a world with no entry under an action that
\* has entries for other worlds: the reads find a missing key.
C13_Witness ==
  /\ Evaluated /\ Root[1] \in ModalOps
  /\ Root[3] \in DOMAIN model.accessibility_relations
  /\ outcome.world \notin DOMAIN model.accessibility_relations[Root[3]]
  /\ outcome.res = IF Root[1] = "Diamond" THEN <<lattice.bottom, lattice.top>>
                   ELSE <<lattice.top, lattice.bottom>>

\* "p & ~p" has been evaluated at w1, which assigns p = (1,0), over the
\* lattice {0,1}.
PAndNotPAtW1 ==
  /\ Evaluated /\ text = T_PAndNotP /\ outcome.world = "w1"
  /\ lattice.elements = {"0", "1"}
  /\ lattice.relations = {<<"0", "0">>, <<"1", "1">>, <<"0", "1">>}
  /\ model.assignments["w1"][S_p] = Tuple("1", "0")

\* C14: over the lattice {0,1}, at a world w1 with p = (1,0), "p & ~p"
\* evaluates to (0,1): the weak meet (meet(1,0), join(0,1)) of (1,0) and (0,1).
C14_PAndNotPIsFalse ==
  PAndNotPAtW1 => outcome.res = <<"0", "1">>

C14_Witness ==
  PAndNotPAtW1 /\ Root = And(Atom(S_p), Not(Atom(S_p))) /\ outcome.res = <<"0", "1">>

\* C14 as stated: "p & ~p" evaluates at w1 to (0,0).
C14_PAndNotPIsZeroZero ==
  PAndNotPAtW1 => outcome.res = <<"0", "0">>

\* "<a>q" has been evaluated at w1 in the sample model: the only a-edge is
\* R(a)[w1][w2] = (1,0), and w2 assigns q = (1,0).
DiamondQAtW1 ==
  /\ Evaluated /\ text = T_DiamondQ /\ outcome.world = "w1"
  /\ lattice.elements = {"0", "1"}
  /\ lattice.implication_map = SampleLattice.implication_map
  /\ model.actions = {S_a}
  /\ model.accessibility_relations = [x \in {S_a} |-> [y \in {"w1"} |-> [z \in {"w2"} |-> <<"1", "0">>]]]
  /\ model.assignments["w2"][S_q] = Tuple("1", "0")

\* C15: in the sample model "<a>q" evaluates at w1 to (1,0).
C15_DiamondQIsTrue ==
  DiamondQAtW1 => outcome.res = <<"1", "0">>

C15_Witness ==
  DiamondQAtW1 /\ Root = Diamond(Atom(S_q), S_a) /\ outcome.res = <<"1", "0">>

\* The weights stored in accessibility_relations of a Model.
StoredWeights(M) ==
  UNION { UNION { {M.accessibility_relations[action][src][tgt] :
                     tgt \in DOMAIN M.accessibility_relations[action][src]} :
                  src \in DOMAIN M.accessibility_relations[action]} :
          action \in DOMAIN M.accessibility_relations }

\* C18: every weight stored in a constructed Model is a pair of labels of the
\* base lattice of the Model's twist structure, i.e. an element of its carrier.
C18_StoredWeightsInCarrier ==
  StoredWeights(model) \subseteq twist_elements(lattice)

\* The Atom.evaluate calls of the evaluation that find no assignment.
UndefinedCalls ==
  {call \in atoms_reached(Root, model, outcome.world, lattice, iter_order) :
     UndefinedAt(model, call)}

\* C19: when the evaluation of a formula reaches an Atom whose name is no
\* constant and no key of the assignments of the world the Atom is evaluated
\* at, the evaluate call on the root raises and returns no pair, whatever
\* nodes enclose the Atom.
C19_UndefinedAtomAborts ==
  (Evaluated /\ UndefinedCalls # {}) => IsErr(outcome.res)

C19_Witness ==
  /\ Evaluated /\ Root[1] \in ModalOps
  /\ \E call \in UndefinedCalls : call[2] # outcome.world
  /\ get_atoms(Root) \subseteq DOMAIN model.assignments[outcome.world]
  /\ IsErr(outcome.res)

\* weak_join_set of residue_meet(get_relation_weight(a, w, v), eval(phi at v))
\* over a listing of worlds v.
DiamondOverWorlds(phi, action, world, listing) ==
  With([i \in 1..Len(listing) |->
          residue_meet(lattice, iter_order,
                       get_relation_weight(model, lattice, action, world, listing[i]),
                       evaluate(phi, model, listing[i], lattice, iter_order))],
       LAMBDA results :
         IF \E i \in 1..Len(listing) : IsErr(results[i]) THEN ErrPair
         ELSE weak_join_set(lattice, iter_order, results))

\* The child of the Diamond at the root evaluates at every world of the model.
ChildEvaluatesEverywhere ==
  \A v \in model.worlds : ~IsErr(evaluate(Root[2], model, v, lattice, iter_order))

\* C20: for a in model.actions and a child phi that evaluates at every world,
\* Diamond(phi, a) at w equals weak_join_set, over all the worlds v of the
\* model in any listing, of residue_meet(get_relation_weight(a, w, v),
\* eval(phi at v)), where get_relation_weight is the stored weight or
\* (bottom, top).
C20_AbsentEdgesAsDefaultWeight ==
  (Evaluated /\ Root[1] = "Diamond" /\ Root[3] \in model.actions
     /\ ChildEvaluatesEverywhere) =>
     \A listing \in Perms(model.worlds) :
        outcome.res = DiamondOverWorlds(Root[2], Root[3], outcome.world, listing)

\* The model with the assignments of the constant names removed from every
\* world.
WithoutConstantKeys(M) ==
  [M EXCEPT !.assignments =
     [w \in DOMAIN M.assignments |->
        [x \in DOMAIN M.assignments[w] \ ConstantNames |-> M.assignments[w][x]]]]

\* C25: the inputs 1 and TOP parse to Atom(TOP), 0 and BOT to Atom(BOT); at
\* every world, whatever it assigns, Atom(TOP) evaluates to (top, bottom) and
\* Atom(BOT) to (bottom, top), so a formula evaluates as it does when no world
\* assigns a proposition of these names; get_atoms never returns them.
C25_ConstantsAreCanonical ==
  /\ (pc \in Ready /\ text \in {T_1, T_TOP}) => Root = Atom(S_TOP)
  /\ (pc \in Ready /\ text \in {T_0, T_BOT}) => Root = Atom(S_BOT)
  /\ (Evaluated /\ Root = Atom(S_TOP)) => outcome.res = <<lattice.top, lattice.bottom>>
  /\ (Evaluated /\ Root = Atom(S_BOT)) => outcome.res = <<lattice.bottom, lattice.top>>
  /\ Evaluated =>
        outcome.res = evaluate(Root, WithoutConstantKeys(model), outcome.world,
                               lattice, iter_order)
  /\ (pc = "called" /\ outcome.kind = "get_atoms") =>
        outcome.res \cap ConstantNames = {}

C25_Witness ==
  /\ Evaluated /\ text = T_1 /\ Root = Atom(S_TOP)
  /\ S_TOP \in DOMAIN model.assignments[outcome.world]
  /\ AssignmentValue(model.assignments[outcome.world][S_TOP]) # <<lattice.top, lattice.bottom>>
  /\ outcome.res = <<lattice.top, lattice.bottom>>

(***************************************************************************)
(* Claims about the TwistStructure operations                              *)
(***************************************************************************)
Returned(kind) == pc = "returned" /\ outcome.kind = kind

\* C16: negation applied to the result of negation(p) gives p back, for
\* every pair p of the carrier.
C16_NegationIsInvolution ==
  Returned("negation") =>
     /\ call_args[1] \in twist_elements(lattice)
     /\ negation(outcome.res) = call_args[1]

C16_Witness ==
  /\ Returned("negation")
  /\ call_args[1][1] # call_args[1][2]
  /\ outcome.res = <<call_args[1][2], call_args[1][1]>>

\* The fold of a pairwise operation over a list, from a starting pair.
RECURSIVE FoldWeakMeet(_, _, _, _)
FoldWeakMeet(L, ord, acc, pairs) ==
  IF pairs = <<>> THEN acc
  ELSE FoldWeakMeet(L, ord, weak_meet(L, ord, acc, Head(pairs)), Tail(pairs))

RECURSIVE FoldWeakJoin(_, _, _, _)
FoldWeakJoin(L, ord, acc, pairs) ==
  IF pairs = <<>> THEN acc
  ELSE FoldWeakJoin(L, ord, weak_join(L, ord, acc, Head(pairs)), Tail(pairs))

\* C17: weak_meet_set of a list of carrier pairs is the fold of weak_meet over
\* the list from (top, bottom), and weak_join_set the fold of weak_join from
\* (bottom, top); for the empty list these are (top, bottom) and (bottom, top).
C17_SetAggregationIsFold ==
  /\ Returned("weak_meet_set") =>
        outcome.res = FoldWeakMeet(lattice, iter_order,
                                   <<lattice.top, lattice.bottom>>, call_args)
  /\ Returned("weak_join_set") =>
        outcome.res = FoldWeakJoin(lattice, iter_order,
                                   <<lattice.bottom, lattice.top>>, call_args)

\* C17 on the lattices whose order has unique least upper and greatest lower
\* bounds.
C17_OnLatticeOrders ==
  IsLatticeOrder(lattice.elements, lattice.relations) => C17_SetAggregationIsFold

\* C23: the constructed TwistStructure has elements = rl.elements x
\* rl.elements, truth_relation = exactly the pairs ((t1,f1),(t2,f2)) of carrier
\* elements with t1 <= t2 and f2 <= f1 in the base order, and
\* qntt_info_relation = exactly those with t1 <= t2 and f1 <= f2.
C23_TwistOrdersFromBaseOrder ==
  Returned("TwistStructure") =>
     LET E == lattice_args.elements
         R == lattice_args.relations
         carrier == {<<t, f>> : t \in E, f \in E}
         tw == outcome.res
     IN /\ tw.elements = carrier
        /\ \A p1 \in carrier : \A p2 \in carrier :
              /\ <<p1, p2>> \in tw.truth_relation
                    <=> (<<p1[1], p2[1]>> \in R /\ <<p2[2], p1[2]>> \in R)
              /\ <<p1, p2>> \in tw.qntt_info_relation
                    <=> (<<p1[1], p2[1]>> \in R /\ <<p1[2], p2[2]>> \in R)
        /\ tw.truth_relation \subseteq carrier \X carrier
        /\ tw.qntt_info_relation \subseteq carrier \X carrier

C23_Witness ==
  /\ Returned("TwistStructure")
  /\ Cardinality(lattice_args.elements) = 3
  /\ outcome.res.truth_relation # outcome.res.qntt_info_relation
  /\ Cardinality(outcome.res.elements) = 9

\* rels is reflexive, antisymmetric and transitive on elems.
IsPartialOrder(elems, rels) ==
  /\ \A x \in elems : Leq(rels, x, x)
  /\ \A x \in elems : \A y \in elems :
        (Leq(rels, x, y) /\ Leq(rels, y, x)) => x = y
  /\ \A x \in elems : \A y \in elems : \A z \in elems :
        (Leq(rels, x, y) /\ Leq(rels, y, z)) => Leq(rels, x, z)

\* the greatest lower bounds / least upper bounds of the set S among elems
GlbsOfSet(elems, rels, S) ==
  LET lb == {x \in elems : \A m \in S : Leq(rels, x, m)}
  IN {x \in lb : \A y \in lb : Leq(rels, y, x)}

LubsOfSet(elems, rels, S) ==
  LET ub == {x \in elems : \A m \in S : Leq(rels, m, x)}
  IN {x \in ub : \A y \in ub : Leq(rels, x, y)}

\* C26: in a constructed Lattice, meet_set(S) of a non-empty subset S of the
\* elements is the greatest lower bound of the members of S and join_set(S)
\* their least upper bound, whatever the order in which sets are traversed;
\* meet_set of the empty collection is top and join_set of it is bottom.
C26_SetBoundsAreGlbAndLub ==
  /\ Returned("meet_set") =>
        IF outcome.subset = {} THEN outcome.res = lattice.top
        ELSE /\ GlbsOfSet(lattice.elements, lattice.relations, outcome.subset)
                  = {outcome.res}
             /\ \A ord \in Perms(lattice.elements) :
                   meet_set(lattice, ord, outcome.subset) = outcome.res
  /\ Returned("join_set") =>
        IF outcome.subset = {} THEN outcome.res = lattice.bottom
        ELSE /\ LubsOfSet(lattice.elements, lattice.relations, outcome.subset)
                  = {outcome.res}
             /\ \A ord \in Perms(lattice.elements) :
                   join_set(lattice, ord, outcome.subset) = outcome.res

\* C26 on the relations that are reflexive, antisymmetric and transitive.
C26_OnPartialOrders ==
  IsPartialOrder(lattice.elements, lattice.relations) => C26_SetBoundsAreGlbAndLub

\* C27: in a constructed Lattice, top is greater than or equal to every
\* element and bottom less than or equal to every element under the stored
\* order, and both are the same under every iteration order of the element
\* set.
C27_TopAndBottomBoundAllElements ==
  pc = "constructed" =>
     /\ \A x \in lattice.elements :
           /\ Leq(lattice.relations, x, lattice.top)
           /\ Leq(lattice.relations, lattice.bottom, x)
     /\ \A ord \in Perms(lattice.elements) :
           With(NewLattice(lattice_args.elements, lattice_args.relations,
                           lattice_args.implication_map, ord),
                LAMBDA other :
                  other.valid => (other.top = lattice.top /\ other.bottom = lattice.bottom))

\* C27 on the relations that are reflexive, antisymmetric and transitive.
C27_OnPartialOrders ==
  IsPartialOrder(lattice.elements, lattice.relations) => C27_TopAndBottomBoundAllElements

\* The value of the formula at the world when the element set of the lattice
\* is traversed in the order ord, from construction on.
EvaluateUnderOrder(world, ord) ==
  evaluate(Root, model, world,
           NewLattice(lattice_args.elements, lattice_args.relations,
                      lattice_args.implication_map, ord), ord)

\* C28: an evaluation of a formula at a world of a model returns the same pair,
\* or fails as well, whatever the iteration order of the lattice's element set.
C28_EvaluationIsDeterministic ==
  Evaluated =>
    \A ord \in IterOrders : EvaluateUnderOrder(outcome.world, ord) = outcome.res

\* C28 on the relations that are reflexive, antisymmetric and transitive.
C28_OnPartialOrders ==
  IsPartialOrder(lattice.elements, lattice.relations) => C28_EvaluationIsDeterministic

\* C29: a value returned by an evaluation is a pair of the twist structure's
\* carrier; an assignment naming labels outside the lattice gives an error.
C29_ResultsStayInCarrier ==
  (Evaluated /\ ~IsErr(outcome.res)) => outcome.res \in twist_elements(lattice)

\* C29 at the worlds whose assignments are pairs of the carrier.
C29_OnCarrierAssignments ==
  (\A w \in model.worlds : \A name \in DOMAIN model.assignments[w] :
      AssignmentValue(model.assignments[w][name]) \in twist_elements(lattice))
    => C29_ResultsStayInCarrier

\* The evaluation of node at world ends in the ValueError of Diamond.evaluate
\* for an action that is not in M.actions: the first raise met, in the order
\* in which the children and the successors are evaluated, is that one.
RECURSIVE UndefinedActionError(_, _, _, _, _)
UndefinedActionErrorInDiamond(child, action, M, world, L, ord) ==
  \/ action \notin M.actions
  \/ /\ action \in M.actions
     /\ With(DictGet(DictGet(M.accessibility_relations, action), world),
           LAMBDA targets_map :
         With(SelectSeq(WorldSeq, LAMBDA t : t \in DOMAIN targets_map), LAMBDA targets :
           \E i \in 1..Len(targets) :
             /\ \A j \in 1..(i - 1) :
                  /\ ~IsErr(evaluate(child, M, targets[j], L, ord))
                  /\ ~IsErr(residue_meet(L, ord, targets_map[targets[j]],
                                         evaluate(child, M, targets[j], L, ord)))
             /\ UndefinedActionError(child, M, targets[i], L, ord)))

UndefinedActionError(node, M, world, L, ord) ==
  IF node[1] = "Atom" THEN FALSE
  ELSE IF node[1] = "Not" THEN UndefinedActionError(node[2], M, world, L, ord)
  ELSE IF node[1] = "Diamond"
    THEN UndefinedActionErrorInDiamond(node[2], node[3], M, world, L, ord)
  ELSE IF node[1] = "Box"
    THEN UndefinedActionErrorInDiamond(Not(node[2]), node[3], M, world, L, ord)
  ELSE \/ UndefinedActionError(node[2], M, world, L, ord)
       \/ /\ ~IsErr(evaluate(node[2], M, world, L, ord))
          /\ UndefinedActionError(node[3], M, world, L, ord)

\* Relations arguments of the constructor over the actions a and b, with a
\* weight or None on the edge from w1 to w2.
RelationsArguments ==
  UNION { { [action \in acts |-> [src \in {"w1"} |-> [tgt \in {"w2"} |-> weight]]] :
            weight \in {NoWeight, <<"1", "0">>} } : acts \in SUBSET ActionNames }

\* C30: every key of the relations given to the Model constructor is in the
\* Model's actions, and an evaluation whose Diamond and Box nodes all use
\* actions with a stored transition never fails with the error of an
\* undefined action.
C30_TransitionActionsAreDefined ==
  /\ \A relations \in RelationsArguments : \A actions \in SUBSET ActionNames :
        DOMAIN relations \subseteq
          Model_init(Worlds, [w \in Worlds |-> EmptyDict], relations, actions).actions
  /\ DOMAIN model.accessibility_relations \subseteq model.actions
  /\ (Evaluated /\ actions_of(Root) \subseteq DOMAIN model.accessibility_relations)
       => ~UndefinedActionError(Root, model, outcome.world, lattice, iter_order)

\* A Diamond or Box over an action given only through the relations argument
\* has been evaluated at a world with a stored transition and returned a value.
C30_Witness ==
  /\ Evaluated /\ Root[1] \in ModalOps
  /\ Root[3] \in DOMAIN model.accessibility_relations
  /\ outcome.world \in DOMAIN model.accessibility_relations[Root[3]]
  /\ ~IsErr(outcome.res)

\* C24: every TwistStructure returned by a load, after any sequence of saves,
\* overwrites by name, deletes and loads, has elements equal to the carrier
\* of its residuated lattice and truth and information orders equal to those
\* computed from that lattice's order.
C24_LoadedTwistMatchesBaseLattice ==
  (outcome.kind = "load_twist_structure" /\ outcome.res # NoObject) =>
     LET ts == outcome.res
         rl == ts.residuated_lattice.lattice
     IN /\ ts.elements = twist_elements(rl)
        /\ ts.truth_relation = _build_truth_order(rl, twist_elements(rl))
        /\ ts.qntt_info_relation = _build_quantity_info_order(rl, twist_elements(rl))

\* The two implication-table lookups residue_meet makes for its arguments.
ResidueLookups == {<<call_args[1][1], call_args[2][2]>>, <<call_args[2][1], call_args[1][2]>>}

\* C21: residue_meet((t1,f1),(t2,f2)) returns
\* (meet(t1,t2), meet(imp(t1,f2), imp(t2,f1))) when the table defines both
\* imp(t1,f2) and imp(t2,f1), and raises, returning no pair, when either
\* lookup is absent from the table.
C21_ResidueMeetOrRaise ==
  Returned("residue_meet") =>
     LET t1 == call_args[1][1]
         f1 == call_args[1][2]
         t2 == call_args[2][1]
         f2 == call_args[2][2]
         imp == lattice.implication_map
     IN IF ResidueLookups \subseteq DOMAIN imp
        THEN /\ ~IsErr(outcome.res)
             /\ outcome.res[1] = meet(lattice, iter_order, t1, t2)
             /\ outcome.res[2] = meet(lattice, iter_order, imp[<<t1, f2>>], imp[<<t2, f1>>])
        ELSE IsErr(outcome.res)

C21_Witness ==
  /\ Returned("residue_meet")
  /\ Cardinality(ResidueLookups \ DOMAIN lattice.implication_map) = 1
  /\ Cardinality(ResidueLookups \cap DOMAIN lattice.implication_map) = 1
  /\ IsErr(outcome.res)

\* The operations on one or two pairs that the claim of totality names.
CoreOperations ==
  {"negation", "weak_meet", "weak_join", "consensus", "accept_all",
   "residue_meet", "implication"}

\* The implication-table lookups of the call that returned.
TableLookups ==
  IF outcome.kind = "residue_meet" THEN ResidueLookups
  ELSE IF outcome.kind = "implication"
    THEN {<<call_args[1][1], call_args[2][1]>>, <<call_args[2][2], call_args[1][2]>>}
  ELSE {}

\* Every lookup of the call has an entry, and the entry is a lattice element.
LookupsDefined ==
  \A pr \in TableLookups :
     /\ pr \in DOMAIN lattice.implication_map
     /\ lattice.implication_map[pr] \in lattice.elements

\* C22 as stated: each of negation, weak_meet, weak_join, consensus,
\* accept_all, residue_meet and implication, called on pairs of the carrier,
\* returns without error a pair of the carrier.
C22_OperationsTotalAndClosed ==
  (pc = "returned" /\ outcome.kind \in CoreOperations) =>
     outcome.res \in twist_elements(lattice)

\* C22, amended: called on pairs of the carrier, negation, weak_meet,
\* weak_join, consensus and accept_all always return a pair of the carrier;
\* residue_meet and implication return a pair of the carrier when the table
\* has a lattice element for both of their lookups, and raise otherwise.
C22_TotalWhereTableIsDefined ==
  (pc = "returned" /\ outcome.kind \in CoreOperations) =>
     IF LookupsDefined THEN outcome.res \in twist_elements(lattice)
     ELSE IsErr(outcome.res)

C22_Witness ==
  /\ Returned("implication")
  /\ ~LookupsDefined
  /\ call_args[1] # call_args[2]
  /\ IsErr(outcome.res)

(***************************************************************************)
(* Claims about lexing and parsing                                         *)
(***************************************************************************)
ParseDone == pc \in {"parsed", "syntax_error"}

\* The token sequence of a text: the tokens before EOF, and the token (EOF or
\* ERROR) that ends it.
RECURSIVE TokenizeFrom(_, _, _)
TokenizeFrom(txt, pos, acc) ==
  LET tok == get_next_token(txt, pos)
  IN IF tok.type \in {"EOF", "ERROR"} THEN [toks |-> acc, end |-> tok]
     ELSE TokenizeFrom(txt, tok.pos, Append(acc, tok))

Tokenize(txt) == TokenizeFrom(txt, 0, <<>>)

Types(toks) == [i \in DOMAIN toks |-> toks[i].type]

\* Reference reading of a token sequence by operator precedence: the root is
\* the rightmost operator of the loosest level outside all parentheses.
Level(type) ==
  CASE type \in {"IFF", "MAT_IFF"} -> 1
    [] type \in {"IMPLIES", "MAT_IMPLIES"} -> 2
    [] type = "OR" -> 3
    [] type = "AND" -> 4
    [] OTHER -> 5

NodeLevel(node) ==
  CASE node[1] \in {"Iff", "MaterialIff"} -> 1
    [] node[1] \in {"Implies", "MaterialImplies"} -> 2
    [] node[1] = "Or" -> 3
    [] node[1] = "And" -> 4
    [] OTHER -> 5

ClassOf(type) ==
  CASE type = "IFF" -> "Iff" [] type = "MAT_IFF" -> "MaterialIff"
    [] type = "IMPLIES" -> "Implies" [] type = "MAT_IMPLIES" -> "MaterialImplies"
    [] type = "OR" -> "Or" [] type = "AND" -> "And"
    [] type = "NOT" -> "Not" [] type = "BOX" -> "Box" [] type = "DIAMOND" -> "Diamond"
    [] OTHER -> "Atom"

\* Parenthesis depth in front of token i.
DepthAt(toks, i) ==
  Cardinality({j \in 1..(i - 1) : toks[j].type = "LPAREN"})
  - Cardinality({j \in 1..(i - 1) : toks[j].type = "RPAREN"})

Max(S) == CHOOSE x \in S : \A y \in S : y <= x
Min(S) == CHOOSE x \in S : \A y \in S : x <= y

RECURSIVE RefParse(_)
RefParse(toks) ==
  LET n == Len(toks)
      ops == {i \in 1..n : Level(toks[i].type) < 5 /\ DepthAt(toks, i) = 0}
      loosest == Min({Level(toks[i].type) : i \in ops})
      split == Max({i \in ops : Level(toks[i].type) = loosest})
      l == RefParse(SubSeq(toks, 1, split - 1))
      r == RefParse(SubSeq(toks, split + 1, n))
      c == RefParse(Tail(toks))
  IN IF n = 0 THEN NoAst
     ELSE IF ops # {}
       THEN IF l = NoAst \/ r = NoAst THEN NoAst
            ELSE <<ClassOf(toks[split].type), l, r>>
     ELSE IF toks[1].type = "NOT" THEN IF c = NoAst THEN NoAst ELSE Not(c)
     ELSE IF toks[1].type \in {"BOX", "DIAMOND"}
       THEN IF c = NoAst THEN NoAst ELSE <<ClassOf(toks[1].type), c, toks[1].value>>
     ELSE IF toks[1].type = "LPAREN"
       THEN IF n >= 3 /\ toks[n].type = "RPAREN"
               /\ \A i \in 2..n : DepthAt(toks, i) >= 1
              THEN RefParse(SubSeq(toks, 2, n - 1))
            ELSE NoAst
     ELSE IF toks[1].type = "ATOM" /\ n = 1 THEN Atom(toks[1].value)
     ELSE NoAst

T_p == <<"p">>
T_q == <<"q">>
T_r == <<"r">>

RECURSIVE PrefixChildrenAreOperands(_)
PrefixChildrenAreOperands(node) ==
  IF node[1] = "Atom" THEN TRUE
  ELSE IF node[1] \in {"Not", "Box", "Diamond"}
    THEN NodeLevel(node[2]) = 5 /\ PrefixChildrenAreOperands(node[2])
  ELSE PrefixChildrenAreOperands(node[2]) /\ PrefixChildrenAreOperands(node[3])

NoParens(toks) == \A i \in DOMAIN toks : toks[i].type \notin {"LPAREN", "RPAREN"}

\* C5: a prefix '~', '[a]', '<a>' binds tighter than every binary operator:
\* in the AST of a parenthesis-free input no prefix node has a binary node as
\* its child, PREFIX operand BINOP operand parses as BINOP(PREFIX(operand),
\* operand), and "[a]p & q", "[a]~p & q" parse as stated.
C5_PrefixBindsTighter ==
  ParseDone =>
     LET tz == Tokenize(text)
         ty == Types(tz.toks)
     IN /\ (pc = "parsed" /\ NoParens(tz.toks)) => PrefixChildrenAreOperands(Root)
        /\ (tz.end.type = "EOF" /\ Len(ty) = 4
            /\ ty[1] \in {"NOT", "BOX", "DIAMOND"} /\ ty[2] = "ATOM"
            /\ Level(ty[3]) < 5 /\ ty[4] = "ATOM") =>
              /\ pc = "parsed"
              /\ Root[1] = ClassOf(ty[3])
              /\ Root[2][1] = ClassOf(ty[1]) /\ Root[2][2] = Atom(tz.toks[2].value)
              /\ Root[3] = Atom(tz.toks[4].value)
        /\ text = <<"[", "a", "]", "p", " ", "&", " ", "q">> =>
              Root = And(Box(Atom(T_p), S_a), Atom(T_q))
        /\ text = <<"[", "a", "]", " ", "~", " ", "p", " ", "&", " ", "q">> =>
              Root = And(Box(Not(Atom(T_p)), S_a), Atom(T_q))

C5_Witness ==
  /\ pc = "parsed"
  /\ text = <<"[", "a", "]", " ", "~", " ", "p", " ", "&", " ", "q">>
  /\ Root = And(Box(Not(Atom(T_p)), S_a), Atom(T_q))

\* C6: the AST of a well-formed token sequence is its reading by precedence
\* ('&' tighter than '|', tighter than '->' and '=>', tighter than '<->'),
\* every chain of one level grouped to the left; "p -> q -> r" and
\* "p | q & r" parse as stated.
C6_PrecedenceAndLeftAssociativity ==
  ParseDone =>
     LET tz == Tokenize(text)
         ref == RefParse(tz.toks)
     IN /\ (tz.end.type = "EOF" /\ ref # NoAst) => (pc = "parsed" /\ Root = ref)
        /\ text = <<"p", " ", "-", ">", " ", "q", " ", "-", ">", " ", "r">> =>
              Root = MaterialImplies(MaterialImplies(Atom(T_p), Atom(T_q)), Atom(T_r))
        /\ text = <<"p", " ", "|", " ", "q", " ", "&", " ", "r">> =>
              Root = Or(Atom(T_p), And(Atom(T_q), Atom(T_r)))

C6_Witness ==
  /\ pc = "parsed"
  /\ text = <<"p", " ", "|", " ", "q", " ", "&", " ", "r">>
  /\ Root = Or(Atom(T_p), And(Atom(T_q), Atom(T_r)))

RECURSIVE NodeCount(_)
NodeCount(node) ==
  IF node[1] = "Atom" THEN 1
  ELSE IF node[1] \in {"Not", "Box", "Diamond"} THEN 1 + NodeCount(node[2])
  ELSE 1 + NodeCount(node[2]) + NodeCount(node[3])

\* C7: parse returns an AST only when it consumed every token of the input
\* (one node per token other than parentheses, the lexer at the end of the
\* text); otherwise it raises and returns no AST: a token left over, or end of
\* input where an operand is expected, is an error.
C7_CompleteAstOrError ==
  ParseDone =>
     LET tz == Tokenize(text)
     IN /\ pc = "parsed" =>
             /\ Root # NoAst
             /\ tz.end.type = "EOF"
             /\ parsed.tok.type = "EOF" /\ parsed.tok.pos = Len(text)
             /\ NodeCount(Root) =
                  Cardinality({i \in DOMAIN tz.toks :
                                 tz.toks[i].type \notin {"LPAREN", "RPAREN"}})
        /\ pc = "syntax_error" => (Root = NoAst /\ IsError(parsed.tok))
        /\ (tz.end.type = "ERROR" \/ RefParse(tz.toks) = NoAst) => pc = "syntax_error"
        /\ text \in { <<"p", " ", "a">>, <<"p", ")">>, <<"p", "<", "a", ">", "a">>,
                      <<>>, <<"p", "&">>, <<"~">>, <<"(", "p">> } =>
              pc = "syntax_error"

C7_Witness ==
  /\ pc = "syntax_error"
  /\ text = <<"p", "<", "a", ">", "a">>
  /\ Root = NoAst

\* C8: a lexical error (empty or unclosed modal prefix, unknown character,
\* dangling '-' or '=') is raised with a value that includes the character
\* offset at which it was detected.
C8_LexicalErrorsCarryOffset ==
  (pc = "syntax_error" /\ Tokenize(text).end.type = "ERROR"
   /\ parsed.tok = Tokenize(text).end) =>
     \E i \in DOMAIN parsed.tok.value : parsed.tok.value[i][1] = "offset"

\* C9: "A => B" parses to Implies(A, B) and "A <=> B" parses to Iff(A, B).
C9_ResiduatedConnectivesParse ==
  ParseDone =>
     \A x \in {<<"p">>, <<"a">>} : \A y \in {<<"p">>, <<"a">>} :
        /\ text = x \o <<"=", ">">> \o y => Root = Implies(Atom(x), Atom(y))
        /\ text = x \o <<"<", "=", ">">> \o y => Root = Iff(Atom(x), Atom(y))
====
